---- MODULE Spec2Model ----
(***************************************************************************)
(* Link-aware editing for a markdown editor (obsidian-link-editor).        *)
(*                                                                         *)
(* Strings are sequences of one-character strings; offsets are 0-based as  *)
(* in the TypeScript source, so the character at offset i of s is s[i+1].  *)
(* A value that the source represents by null is a record with found =     *)
(* FALSE (links) or the one-element sequence Null (strings).               *)
(***************************************************************************)
EXTENDS Integers, Sequences, FiniteSets, TLC

VARIABLES
    doc,          \* the document: a sequence of lines
    cursor,       \* editor.getCursor(): [line, ch], the selection head
    selFrom,      \* editor.getCursor("from").ch on the cursor line
    selTo,        \* editor.getCursor("to").ch on the cursor line
    clipboard,    \* what navigator.clipboard holds
    visibleLink,  \* whether a link's syntax is temporarily shown
    modal,        \* the LinkEditModal: its fields and its input components
    last          \* the last call or command and what it returned

vars == <<doc, cursor, selFrom, selTo, clipboard, visibleLink, modal, last>>

Null == <<"null">>

(***************************************************************************)
(* String primitives (String.prototype.length / slice / trim / indexOf).   *)
(***************************************************************************)
At(s, i) == s[i + 1]

Slice(s, from, to) == SubSeq(s, from + 1, to)

IsWs(c) == c = " "

Uppers == <<"A", "B", "C", "D", "E", "F", "G", "H", "I", "J", "K", "L", "M", "N", "O", "P", "Q", "R", "S", "T", "U", "V", "W", "X", "Y", "Z">>

Lowers == <<"a", "b", "c", "d", "e", "f", "g", "h", "i", "j", "k", "l", "m", "n", "o", "p", "q", "r", "s", "t", "u", "v", "w", "x", "y", "z">>

Digits == {"0", "1", "2", "3", "4", "5", "6", "7", "8", "9"}

ToLower ==
    [c \in {Uppers[i] : i \in DOMAIN Uppers} |->
        Lowers[CHOOSE i \in DOMAIN Uppers : Uppers[i] = c]]

\* the letter as a pattern with the i flag sees it
Lower(c) == IF c \in DOMAIN ToLower THEN ToLower[c] ELSE c

RECURSIVE TrimLeft(_)
TrimLeft(s) == IF s # <<>> /\ IsWs(Head(s)) THEN TrimLeft(Tail(s)) ELSE s

RECURSIVE TrimRight(_)
TrimRight(s) ==
    IF s # <<>> /\ IsWs(s[Len(s)]) THEN TrimRight(SubSeq(s, 1, Len(s) - 1)) ELSE s

trim(s) == TrimRight(TrimLeft(s))

\* case-insensitive test that pattern p occurs in s at offset i
PrefixAt(s, i, p) ==
    /\ i + Len(p) <= Len(s)
    /\ \A k \in 1..Len(p) : Lower(s[i + k]) = p[k]

\* offset of the first character of s at or after offset i that is in cs, or
\* Len(s) when there is none
FirstOf(s, i, cs) ==
    LET hits == {k \in i..(Len(s) - 1) : At(s, k) \in cs}
    IN IF hits = {} THEN Len(s)
       ELSE CHOOSE k \in hits : \A j \in hits : k <= j

HttpPrefix == <<"h", "t", "t", "p", ":", "/", "/">>
HttpsPrefix == <<"h", "t", "t", "p", "s", ":", "/", "/">>
WwwPrefix == <<"w", "w", "w", ".">>

(***************************************************************************)
(* URL classifier.                                                         *)
(***************************************************************************)
\* the pattern without its i flag
isUrlCaseSensitive(str) ==
    IF str = <<>> THEN FALSE
    ELSE LET trimmed == trim(str)
         IN \E p \in {HttpPrefix, HttpsPrefix, WwwPrefix} :
               /\ Len(trimmed) > Len(p)
               /\ SubSeq(trimmed, 1, Len(p)) = p
               /\ FirstOf(trimmed, Len(p), {" "}) = Len(trimmed)

\* /^https?:\/\/\S+$|^www\.\S+$/i.test(trimmed)
isUrl(str) ==
    IF str = <<>> THEN FALSE
    ELSE LET trimmed == trim(str)
         IN \E p \in {HttpPrefix, HttpsPrefix, WwwPrefix} :
               /\ PrefixAt(trimmed, 0, p)
               /\ Len(trimmed) > Len(p)
               /\ FirstOf(trimmed, Len(p), {" "}) = Len(trimmed)

normalizeUrl(str) ==
    IF str = <<>> THEN str
    ELSE LET trimmed == trim(str)
         IN IF PrefixAt(trimmed, 0, HttpPrefix) \/ PrefixAt(trimmed, 0, HttpsPrefix)
            THEN trimmed
            ELSE IF PrefixAt(trimmed, 0, WwwPrefix)
            THEN HttpsPrefix \o trimmed
            ELSE trimmed

HtpPrefix == <<"h", "t", "p", ":", "/", "/">>
HtpsPrefix == <<"h", "t", "p", "s", ":", "/", "/">>
HttpOneSlash == <<"h", "t", "t", "p", ":", "/">>
HttpsNoColon == <<"h", "t", "t", "p", "s", "/", "/">>

\* [a-zA-Z0-9-] under the i flag
IsLabelChar(c) ==
    \/ Lower(c) \in {Lowers[i] : i \in DOMAIN Lowers}
    \/ c \in Digits
    \/ c = "-"

\* the pattern without its $ anchor on the www alternative
isAlmostUrlUnanchored(str) ==
    IF str = <<>> THEN FALSE
    ELSE LET trimmed == trim(str)
         IN \/ PrefixAt(trimmed, 0, HtpPrefix)
            \/ PrefixAt(trimmed, 0, HtpsPrefix)
            \/ PrefixAt(trimmed, 0, HttpOneSlash)
                 /\ Len(trimmed) > Len(HttpOneSlash)
                 /\ At(trimmed, Len(HttpOneSlash)) # "/"
            \/ PrefixAt(trimmed, 0, HttpsNoColon)
            \/ PrefixAt(trimmed, 0, WwwPrefix)
                 /\ Len(trimmed) > Len(WwwPrefix)
                 /\ IsLabelChar(At(trimmed, Len(WwwPrefix)))

\* /^htp:\/\/|^htps:\/\/|^http:\/[^\/]|^https\/\/|^www\.[a-zA-Z0-9-]+$/i.test(trimmed)
isAlmostUrl(str) ==
    IF str = <<>> THEN FALSE
    ELSE LET trimmed == trim(str)
         IN \/ PrefixAt(trimmed, 0, HtpPrefix)
            \/ PrefixAt(trimmed, 0, HtpsPrefix)
            \/ PrefixAt(trimmed, 0, HttpOneSlash)
                 /\ Len(trimmed) > Len(HttpOneSlash)
                 /\ At(trimmed, Len(HttpOneSlash)) # "/"
            \/ PrefixAt(trimmed, 0, HttpsNoColon)
            \/ PrefixAt(trimmed, 0, WwwPrefix)
                 /\ Len(trimmed) > Len(WwwPrefix)
                 /\ \A i \in Len(WwwPrefix)..(Len(trimmed) - 1) :
                        IsLabelChar(At(trimmed, i))

(***************************************************************************)
(* Link syntax codec: wiki and markdown destinations.                      *)
(***************************************************************************)
EncodedSpace == <<"%", "2", "0">>
EncodedCaret == <<"%", "5", "E">>

\* space -> %20 and caret -> %5E, character by character
RECURSIVE percentEncode(_)
percentEncode(s) ==
    IF s = <<>> THEN <<>>
    ELSE (IF Head(s) = " " THEN EncodedSpace
          ELSE IF Head(s) = "^" THEN EncodedCaret
          ELSE <<Head(s)>>) \o percentEncode(Tail(s))

\* a decoder that knows %20 only
RECURSIVE percentDecodeSpaces(_)
percentDecodeSpaces(s) ==
    IF s = <<>> THEN <<>>
    ELSE IF Len(s) >= 3 /\ SubSeq(s, 1, 3) = EncodedSpace
    THEN <<" ">> \o percentDecodeSpaces(SubSeq(s, 4, Len(s)))
    ELSE <<Head(s)>> \o percentDecodeSpaces(Tail(s))

\* %20 -> space and %5E -> caret, left to right
RECURSIVE percentDecode(_)
percentDecode(s) ==
    IF s = <<>> THEN <<>>
    ELSE IF Len(s) >= 3 /\ SubSeq(s, 1, 3) = EncodedSpace
    THEN <<" ">> \o percentDecode(SubSeq(s, 4, Len(s)))
    ELSE IF Len(s) >= 3 /\ SubSeq(s, 1, 3) = EncodedCaret
    THEN <<"^">> \o percentDecode(SubSeq(s, 4, Len(s)))
    ELSE <<Head(s)>> \o percentDecode(Tail(s))

wikiToMarkdown(destination) ==
    IF isUrl(destination) THEN destination ELSE percentEncode(destination)

\* a decoder that leaves carets encoded
markdownToWikiSpacesOnly(destination) ==
    IF isUrl(destination) THEN Null ELSE percentDecodeSpaces(destination)

markdownToWiki(destination) ==
    IF isUrl(destination) THEN Null ELSE percentDecode(destination)

ForbiddenChars == {"|", "^", ":", "*", "\"", "?", "\\", "/"}

\* the part of a wiki destination before its #heading or #^block suffix
filenameOf(s) == SubSeq(s, 1, FirstOf(s, 0, {"#"}))

HasForbiddenChar(name) == \E i \in 1..Len(name) : name[i] \in ForbiddenChars

isValidWikiLink(s) ==
    /\ s # <<>>
    /\ ~isUrl(s)
    /\ ~HasForbiddenChar(filenameOf(s))

isValidMarkdownLink(s) ==
    /\ s # <<>>
    /\ isUrl(s) \/ \A i \in 1..Len(s) : s[i] # " "

(***************************************************************************)
(* Link validator.                                                         *)
(***************************************************************************)
MaxDestLength == 500

Warning(severity, kind) == [severity |-> severity, kind |-> kind]

ValidationResult(warnings, isValid, shouldHighlightDest) ==
    [isValid |-> isValid, warnings |-> warnings,
     shouldHighlightDest |-> shouldHighlightDest, shouldHighlightText |-> FALSE]

\* the warnings, in the order of the rules
warningsFor(destination, isWiki) ==
    (IF isWiki /\ isUrl(destination) THEN <<Warning("error", "wiki-url")>>
     ELSE IF isWiki /\ ~isValidWikiLink(destination)
     THEN <<Warning("error", "forbidden-character")>>
     ELSE IF ~isWiki /\ ~isValidMarkdownLink(destination)
     THEN <<Warning("caution", "unencoded-space")>>
     ELSE <<>>)
    \o (IF isAlmostUrl(destination) /\ ~isUrl(destination)
        THEN <<Warning("caution", "almost-url")>> ELSE <<>>)
    \o (IF Len(destination) > MaxDestLength
        THEN <<Warning("caution", "long-destination")>> ELSE <<>>)

HasError(warnings) == \E i \in 1..Len(warnings) : warnings[i].severity = "error"

\* a result that is invalid as soon as there is any warning
resultOfAnyWarning(warnings) ==
    ValidationResult(warnings, warnings = <<>>, HasError(warnings))

\* isValid is false iff a warning of severity error exists
resultOf(warnings) ==
    ValidationResult(warnings, ~HasError(warnings), HasError(warnings))

validateLinkDestination(destination, text, isWiki) ==
    IF destination = <<>> THEN ValidationResult(<<>>, TRUE, FALSE)
    ELSE resultOf(warningsFor(destination, isWiki))

(***************************************************************************)
(* Cursor link locator.                                                    *)
(***************************************************************************)
\* a wiki link treated as if its opening syntax were one character
wikiEnteredFromLeftOne(ch, start) == ch <= start + 1

\* enteredFromLeft of a markdown link: at or just past the opening bracket
mdEnteredFromLeft(ch, start) == ch <= start + 1

\* enteredFromLeft of a wiki link: at or just past the two opening brackets
wikiEnteredFromLeft(ch, start) == ch <= start + 2

NoMatch == [ok |-> FALSE, end |-> 0, text |-> <<>>, dest |-> <<>>, embed |-> FALSE]

EmptyLink == [text |-> <<>>, destination |-> <<>>, isWiki |-> FALSE, isEmbed |-> FALSE]

NoLink == [found |-> FALSE, link |-> EmptyLink, start |-> 0, end |-> 0,
           enteredFromLeft |-> FALSE]

\* one attempt of /(!?\[)([^\]]*)\]\(([^)]+)\)/ anchored at offset i
mdMatchAt(line, i) ==
    LET n == Len(line)
        bang == i < n /\ At(line, i) = "!"
        b == IF bang THEN i + 1 ELSE i
    IN IF ~(b < n /\ At(line, b) = "[") THEN NoMatch
       ELSE LET rb == FirstOf(line, b + 1, {"]"})
            IN IF ~(rb + 1 < n /\ At(line, rb + 1) = "(") THEN NoMatch
               ELSE LET rp == FirstOf(line, rb + 2, {")"})
                    IN IF rp >= n \/ rp = rb + 2 THEN NoMatch
                       ELSE [ok |-> TRUE, end |-> rp + 1,
                             text |-> Slice(line, b + 1, rb),
                             dest |-> Slice(line, rb + 2, rp),
                             embed |-> bang]

\* one attempt of /(!?\[\[)([^\]|]+)(?:\|([^\]]+))?\]\]/ anchored at offset i
wikiMatchAt(line, i) ==
    LET n == Len(line)
        bang == i < n /\ At(line, i) = "!"
        b == IF bang THEN i + 1 ELSE i
    IN IF ~(b + 1 < n /\ At(line, b) = "[" /\ At(line, b + 1) = "[") THEN NoMatch
       ELSE LET de == FirstOf(line, b + 2, {"]", "|"})
            IN IF de = b + 2 \/ de >= n THEN NoMatch
               ELSE IF At(line, de) = "]"
               THEN IF de + 1 < n /\ At(line, de + 1) = "]"
                    THEN [ok |-> TRUE, end |-> de + 2,
                          text |-> Slice(line, b + 2, de),
                          dest |-> Slice(line, b + 2, de),
                          embed |-> bang]
                    ELSE NoMatch
               ELSE LET te == FirstOf(line, de + 1, {"]"})
                    IN IF te = de + 1 \/ ~(te + 1 < n /\ At(line, te + 1) = "]")
                       THEN NoMatch
                       ELSE [ok |-> TRUE, end |-> te + 2,
                             text |-> Slice(line, de + 1, te),
                             dest |-> Slice(line, b + 2, de),
                             embed |-> bang]

\* the global-regex loop: matches left to right, non-overlapping, first
\* match whose inclusive span contains ch wins
RECURSIVE scanMarkdown(_, _, _)
scanMarkdown(line, ch, from) ==
    IF from >= Len(line) THEN NoLink
    ELSE LET m == mdMatchAt(line, from)
         IN IF ~m.ok THEN scanMarkdown(line, ch, from + 1)
            ELSE IF ch >= from /\ ch <= m.end
            THEN [found |-> TRUE,
                  link |-> [text |-> m.text, destination |-> m.dest,
                            isWiki |-> FALSE, isEmbed |-> m.embed],
                  start |-> from, end |-> m.end,
                  enteredFromLeft |-> mdEnteredFromLeft(ch, from)]
            ELSE scanMarkdown(line, ch, m.end)

RECURSIVE scanWiki(_, _, _)
scanWiki(line, ch, from) ==
    IF from >= Len(line) THEN NoLink
    ELSE LET m == wikiMatchAt(line, from)
         IN IF ~m.ok THEN scanWiki(line, ch, from + 1)
            ELSE IF ch >= from /\ ch <= m.end
            THEN [found |-> TRUE,
                  link |-> [text |-> m.text, destination |-> m.dest,
                            isWiki |-> TRUE, isEmbed |-> m.embed],
                  start |-> from, end |-> m.end,
                  enteredFromLeft |-> wikiEnteredFromLeft(ch, from)]
            ELSE scanWiki(line, ch, m.end)

detectMarkdownLinkAtCursor(line, ch) == scanMarkdown(line, ch, 0)

detectWikiLinkAtCursor(line, ch) == scanWiki(line, ch, 0)

detectLinkAtCursor(line, ch) ==
    LET md == detectMarkdownLinkAtCursor(line, ch)
    IN IF md.found THEN md ELSE detectWikiLinkAtCursor(line, ch)

(***************************************************************************)
(* URL at the cursor and links on the clipboard.                           *)
(***************************************************************************)
NoUrl == [found |-> FALSE, url |-> Null, start |-> 0, end |-> 0]

\* one attempt of /https?:\/\/\S+|www\.\S+/i anchored at offset i
urlMatchAt(line, i) ==
    LET ps == {p \in {HttpPrefix, HttpsPrefix, WwwPrefix} : PrefixAt(line, i, p)}
    IN IF ps = {} THEN [ok |-> FALSE, end |-> 0]
       ELSE LET p == CHOOSE q \in ps : TRUE
                e == FirstOf(line, i + Len(p), {" "})
            IN [ok |-> e > i + Len(p), end |-> e]

RECURSIVE scanUrl(_, _, _)
scanUrl(line, ch, from) ==
    IF from >= Len(line) THEN NoUrl
    ELSE LET m == urlMatchAt(line, from)
         IN IF ~m.ok THEN scanUrl(line, ch, from + 1)
            ELSE IF ch >= from /\ ch <= m.end
            THEN [found |-> TRUE, url |-> Slice(line, from, m.end),
                  start |-> from, end |-> m.end]
            ELSE scanUrl(line, ch, m.end)

urlAtCursor(line, ch) == scanUrl(line, ch, 0).url

NoParse == [found |-> FALSE, text |-> <<>>, destination |-> <<>>, isWiki |-> FALSE,
            isEmbed |-> FALSE]

\* the whole string is one markdown link
parseMarkdownLink(str) ==
    LET m == mdMatchAt(str, 0)
    IN IF m.ok /\ m.end = Len(str)
       THEN [found |-> TRUE, text |-> trim(m.text), destination |-> trim(m.dest),
             isWiki |-> FALSE, isEmbed |-> m.embed]
       ELSE NoParse

\* the whole string is one wiki link
parseWikiLink(str) ==
    LET m == wikiMatchAt(str, 0)
    IN IF m.ok /\ m.end = Len(str)
       THEN [found |-> TRUE, text |-> trim(m.text), destination |-> trim(m.dest),
             isWiki |-> TRUE, isEmbed |-> m.embed]
       ELSE NoParse

parseClipboardLink(text) ==
    LET trimmed == trim(text)
        md == parseMarkdownLink(trimmed)
    IN IF md.found THEN md ELSE parseWikiLink(trimmed)

(***************************************************************************)
(* New-link synthesizer.                                                   *)
(***************************************************************************)
\* `URL converted: ${original} -> ${normalized}` when normalization changed
\* the string, else null (the source writes the arrow as U+2192)
conversionNoticeFor(original, normalized) ==
    IF original # normalized
    THEN <<"URL converted: ">> \o original \o <<" -> ">> \o normalized
    ELSE Null

LinkFromContext(text, destination, isWiki, start, end, shouldSelectText, notice) ==
    [text |-> text, destination |-> destination, isWiki |-> isWiki,
     start |-> start, end |-> end, shouldSelectText |-> shouldSelectText,
     conversionNotice |-> notice]

\* the decision chain with the clipboard URL consulted before the cursor URL
determineLinkFromContextClipboardFirst(p) ==
    LET at == p.cursorCh
        clipUrl == normalizeUrl(p.clipboardText)
        curUrl == normalizeUrl(p.cursorUrl)
        span == scanUrl(p.line, p.cursorCh, 0)
        clipLink == parseClipboardLink(p.clipboardText)
    IN IF isUrl(p.selection)
       THEN LinkFromContext(trim(p.selection), normalizeUrl(p.selection), FALSE, at, at,
                TRUE, conversionNoticeFor(trim(p.selection), normalizeUrl(p.selection)))
       ELSE IF p.selection # <<>>
       THEN IF isUrl(p.clipboardText)
            THEN LinkFromContext(p.selection, clipUrl, FALSE, at, at, FALSE,
                     conversionNoticeFor(p.clipboardText, clipUrl))
            ELSE LinkFromContext(p.selection, p.clipboardText, TRUE, at, at, FALSE, Null)
       ELSE IF isUrl(p.clipboardText)
       THEN LinkFromContext(clipUrl, clipUrl, FALSE, at, at, TRUE,
                conversionNoticeFor(p.clipboardText, clipUrl))
       ELSE IF p.cursorUrl # Null
       THEN LinkFromContext(curUrl, curUrl, FALSE, span.start, span.end, TRUE,
                conversionNoticeFor(p.cursorUrl, curUrl))
       ELSE IF clipLink.found
       THEN LinkFromContext(clipLink.text, clipLink.destination, clipLink.isWiki, at, at,
                FALSE, Null)
       ELSE LinkFromContext(<<>>, p.clipboardText, TRUE, at, at, FALSE, Null)

\* p = [selection, clipboardText, cursorUrl, line, cursorCh]
determineLinkFromContext(p) ==
    LET at == p.cursorCh
        clipUrl == normalizeUrl(p.clipboardText)
        curUrl == normalizeUrl(p.cursorUrl)
        span == scanUrl(p.line, p.cursorCh, 0)
        clipLink == parseClipboardLink(p.clipboardText)
    IN IF isUrl(p.selection)
       THEN LinkFromContext(trim(p.selection), normalizeUrl(p.selection), FALSE, at, at,
                TRUE, conversionNoticeFor(trim(p.selection), normalizeUrl(p.selection)))
       ELSE IF p.selection # <<>>
       THEN IF isUrl(p.clipboardText)
            THEN LinkFromContext(p.selection, clipUrl, FALSE, at, at, FALSE,
                     conversionNoticeFor(p.clipboardText, clipUrl))
            ELSE LinkFromContext(p.selection, p.clipboardText, TRUE, at, at, FALSE, Null)
       ELSE IF p.cursorUrl # Null
       THEN LinkFromContext(curUrl, curUrl, FALSE, span.start, span.end, TRUE,
                conversionNoticeFor(p.cursorUrl, curUrl))
       ELSE IF clipLink.found
       THEN LinkFromContext(clipLink.text, clipLink.destination, clipLink.isWiki, at, at,
                FALSE, Null)
       ELSE IF isUrl(p.clipboardText)
       THEN LinkFromContext(clipUrl, clipUrl, FALSE, at, at, TRUE,
                conversionNoticeFor(p.clipboardText, clipUrl))
       ELSE LinkFromContext(<<>>, p.clipboardText, TRUE, at, at, FALSE, Null)

(***************************************************************************)
(* Link operations: edit an existing link or create a new one.             *)
(***************************************************************************)
LinkInfo(text, destination, isWiki, isEmbed) ==
    [text |-> text, destination |-> destination, isWiki |-> isWiki, isEmbed |-> isEmbed]

LinkOperation(link, start, end, enteredFromLeft, isNewLink, shouldSelectText, notice) ==
    [link |-> link, start |-> start, end |-> end, enteredFromLeft |-> enteredFromLeft,
     isNewLink |-> isNewLink, shouldSelectText |-> shouldSelectText,
     conversionNotice |-> notice]

\* an edit operation that always reports entry from the left
createEditOperationFromLeft(existingLink) ==
    LinkOperation(existingLink.link, existingLink.start, existingLink.end,
                  TRUE, FALSE, FALSE, Null)

createEditOperation(existingLink) ==
    LinkOperation(existingLink.link, existingLink.start, existingLink.end,
                  existingLink.enteredFromLeft, FALSE, FALSE, Null)

\* the operation createNewLinkOperation returns for a computed range
newLinkOperation(linkContext, start, end) ==
    LinkOperation(LinkInfo(linkContext.text, linkContext.destination,
                           linkContext.isWiki, FALSE),
                  start, end, TRUE, TRUE, linkContext.shouldSelectText,
                  linkContext.conversionNotice)

\* a range that is always the cursor point
newLinkRangeAtCursor(linkContext, cursorUrl, cursorCh, selection) ==
    newLinkOperation(linkContext, cursorCh, cursorCh)

\* the range to replace: the URL's span only without a selection
newLinkRange(linkContext, cursorUrl, cursorCh, selection) ==
    newLinkOperation(linkContext,
        IF selection = <<>> /\ cursorUrl # Null THEN linkContext.start ELSE cursorCh,
        IF selection = <<>> /\ cursorUrl # Null THEN linkContext.end ELSE cursorCh)

\* the body of createNewLinkOperation once cursorUrl is known
newLinkAt(cursorUrl, lineText, cursorCh, selection, clipboardText) ==
    newLinkRange(determineLinkFromContext(
                     [selection |-> selection, clipboardText |-> clipboardText,
                      cursorUrl |-> cursorUrl, line |-> lineText,
                      cursorCh |-> cursorCh]),
                 cursorUrl, cursorCh, selection)

createNewLinkOperation(lineText, cursorCh, selection, clipboardText) ==
    newLinkAt(urlAtCursor(lineText, cursorCh), lineText, cursorCh, selection,
              clipboardText)

\* edit the link found, or create a new one
editOrCreate(existingLink, context) ==
    IF existingLink.found
    THEN createEditOperation(existingLink)
    ELSE createNewLinkOperation(context.lineText, context.cursorCh,
                                context.selection, context.clipboardText)

determineLinkOperation(context) ==
    editOrCreate(detectLinkAtCursor(context.lineText, context.cursorCh), context)

\* a selectionFrom / selectionTo the caller left out
Undefined == [line |-> -1, ch |-> -1]

\* a range that looks at the selection only, never at the URL under the cursor
newLinkRangeSelectionOnly(linkContext, cursorUrl, context) ==
    newLinkOperation(linkContext,
        IF context.hasSelection /\ context.selectionFrom # Undefined
              /\ context.selectionTo # Undefined
        THEN context.selectionFrom.ch ELSE context.cursorCh,
        IF context.hasSelection /\ context.selectionFrom # Undefined
              /\ context.selectionTo # Undefined
        THEN context.selectionTo.ch ELSE context.cursorCh)

\* the range of determineLinkOperationWithSelection
newLinkRangeWithSelection(linkContext, cursorUrl, context) ==
    newLinkOperation(linkContext,
        IF context.hasSelection /\ context.selectionFrom # Undefined
              /\ context.selectionTo # Undefined
        THEN context.selectionFrom.ch
        ELSE IF cursorUrl # Null THEN linkContext.start ELSE context.cursorCh,
        IF context.hasSelection /\ context.selectionFrom # Undefined
              /\ context.selectionTo # Undefined
        THEN context.selectionTo.ch
        ELSE IF cursorUrl # Null THEN linkContext.end ELSE context.cursorCh)

\* the new-link part of determineLinkOperationWithSelection once cursorUrl is known
newLinkWithSelectionAt(cursorUrl, context) ==
    newLinkRangeWithSelection(
        determineLinkFromContext(
            [selection |-> context.selection, clipboardText |-> context.clipboardText,
             cursorUrl |-> cursorUrl, line |-> context.lineText,
             cursorCh |-> context.cursorCh]),
        cursorUrl, context)

\* edit the link found, or create a new one over the selection range
editOrCreateWithSelection(existingLink, context) ==
    IF existingLink.found
    THEN createEditOperation(existingLink)
    ELSE newLinkWithSelectionAt(urlAtCursor(context.lineText, context.cursorCh), context)

determineLinkOperationWithSelection(context) ==
    editOrCreateWithSelection(detectLinkAtCursor(context.lineText, context.cursorCh),
                              context)

(***************************************************************************)
(* The bundled plugin (main.js): its own scan and new-link chain.          *)
(***************************************************************************)
\* /\[([^\]]+)\]\(([^)]+)\)/ anchored at offset i: no embed marker, text not empty
mdRegexAt(line, i) ==
    IF i < Len(line) /\ At(line, i) = "[" /\ mdMatchAt(line, i).ok
       /\ mdMatchAt(line, i).text # <<>>
    THEN mdMatchAt(line, i)
    ELSE NoMatch

\* /\[\[([^\]|]+)(?:\|([^\]]+))?\]\]/ anchored at offset i: no embed marker
wikiRegexAt(line, i) ==
    IF i < Len(line) /\ At(line, i) = "[" THEN wikiMatchAt(line, i) ELSE NoMatch

NoLegacyLink == [found |-> FALSE, link |-> [text |-> <<>>, destination |-> <<>>,
                 isWiki |-> FALSE], start |-> 0, end |-> 0, enteredFromLeft |-> TRUE]

RECURSIVE mdRegexScan(_, _, _)
mdRegexScan(line, ch, from) ==
    IF from >= Len(line) THEN NoLegacyLink
    ELSE LET m == mdRegexAt(line, from)
         IN IF ~m.ok THEN mdRegexScan(line, ch, from + 1)
            ELSE IF ch >= from /\ ch <= m.end
            THEN [found |-> TRUE,
                  link |-> [text |-> m.text, destination |-> m.dest, isWiki |-> FALSE],
                  start |-> from, end |-> m.end, enteredFromLeft |-> mdEnteredFromLeft(ch, from)]
            ELSE mdRegexScan(line, ch, m.end)

RECURSIVE wikiRegexScan(_, _, _)
wikiRegexScan(line, ch, from) ==
    IF from >= Len(line) THEN NoLegacyLink
    ELSE LET m == wikiRegexAt(line, from)
         IN IF ~m.ok THEN wikiRegexScan(line, ch, from + 1)
            ELSE IF ch >= from /\ ch <= m.end
            THEN [found |-> TRUE,
                  link |-> [text |-> m.text, destination |-> m.dest, isWiki |-> TRUE],
                  start |-> from, end |-> m.end, enteredFromLeft |-> wikiEnteredFromLeft(ch, from)]
            ELSE wikiRegexScan(line, ch, m.end)

\* the scans in the opposite order: wiki links first
bundledLinkAtCursorWikiFirst(line, ch) ==
    LET wiki == wikiRegexScan(line, ch, 0)
    IN IF wiki.found THEN wiki ELSE mdRegexScan(line, ch, 0)

\* steps 1 and 2 of the bundled edit-link callback
bundledLinkAtCursor(line, ch) ==
    LET md == mdRegexScan(line, ch, 0)
    IN IF md.found THEN md ELSE wikiRegexScan(line, ch, 0)

NewLink(text, destination, shouldBeMarkdown, shouldSelectText, notice) ==
    [link |-> [text |-> text, destination |-> destination, isWiki |-> ~shouldBeMarkdown],
     shouldSelectText |-> shouldSelectText, conversionNotice |-> notice]

\* the chain that puts the normalized URL into the text as well
bundledNewLinkNormalizedText(selection, clipboardText) ==
    LET isSelectionUrl == isUrl(selection)
        isClipboardUrl == isUrl(clipboardText)
    IN IF isSelectionUrl
       THEN NewLink(normalizeUrl(trim(selection)), normalizeUrl(trim(selection)), TRUE, TRUE,
                    conversionNoticeFor(trim(selection), normalizeUrl(trim(selection))))
       ELSE IF selection # <<>>
       THEN IF isClipboardUrl
            THEN NewLink(selection, normalizeUrl(clipboardText), TRUE, FALSE,
                         conversionNoticeFor(clipboardText, normalizeUrl(clipboardText)))
            ELSE NewLink(selection, clipboardText, FALSE, FALSE, Null)
       ELSE IF isClipboardUrl
       THEN NewLink(normalizeUrl(clipboardText), normalizeUrl(clipboardText), TRUE, TRUE,
                    conversionNoticeFor(clipboardText, normalizeUrl(clipboardText)))
       ELSE NewLink(<<>>, clipboardText, FALSE, FALSE, Null)

\* step 3 of the bundled edit-link callback: text and destination placement
bundledNewLink(selection, clipboardText) ==
    LET isSelectionUrl == isUrl(selection)
        isClipboardUrl == isUrl(clipboardText)
    IN IF isSelectionUrl
       THEN NewLink(trim(selection), normalizeUrl(trim(selection)), TRUE, TRUE,
                    conversionNoticeFor(trim(selection), normalizeUrl(trim(selection))))
       ELSE IF selection # <<>>
       THEN IF isClipboardUrl
            THEN NewLink(selection, normalizeUrl(clipboardText), TRUE, FALSE,
                         conversionNoticeFor(clipboardText, normalizeUrl(clipboardText)))
            ELSE NewLink(selection, clipboardText, FALSE, FALSE, Null)
       ELSE IF isClipboardUrl
       THEN NewLink(normalizeUrl(clipboardText), normalizeUrl(clipboardText), TRUE, TRUE,
                    conversionNoticeFor(clipboardText, normalizeUrl(clipboardText)))
       ELSE NewLink(<<>>, clipboardText, FALSE, FALSE, Null)

(***************************************************************************)
(* The edit modal (LinkEditModal.ts).  The text and destination components *)
(* hold textInput and destInput; the link-type toggle shows isWiki, which  *)
(* every handler that sets one also sets on the other.                     *)
(***************************************************************************)
NoModal == [open |-> FALSE]

NoValidation == ValidationResult(<<>>, TRUE, FALSE)

NotSubmitted == [called |-> FALSE]

\* the constructor; "operated" is history, not a field of the class: the
\* controls the user has operated since the modal was built
LinkEditModal(link, isNewLink) ==
    [open |-> FALSE, closed |-> FALSE, link |-> link, isNewLink |-> isNewLink,
     textInput |-> <<>>, destInput |-> <<>>, isWiki |-> FALSE, wasUrl |-> FALSE,
     toggle |-> FALSE, embedToggle |-> FALSE, reading |-> FALSE, validation |-> NoValidation,
     requiredError |-> FALSE, submitted |-> NotSubmitted, operated |-> {}]

\* the user has operated a control
operate(m, control) == [m EXCEPT !.operated = m.operated \cup {control}]

\* updateUIState removes every .link-warning element, the validation error
\* among them, and shows the validator's warnings
updateUIState(m) ==
    [m EXCEPT !.validation = validateLinkDestination(m.destInput, m.textInput, m.isWiki),
              !.requiredError = FALSE]

\* onOpen up to its last line; populateFromClipboard is started, not awaited
onOpen(m) ==
    updateUIState(
        [m EXCEPT !.open = TRUE,
                  !.isWiki = IF isUrl(m.link.destination) THEN FALSE ELSE m.link.isWiki,
                  !.toggle = IF isUrl(m.link.destination) THEN FALSE ELSE m.link.isWiki,
                  !.wasUrl = isUrl(m.link.destination),
                  !.textInput = m.link.text,
                  !.destInput = m.link.destination,
                  !.embedToggle = m.link.isEmbed,
                  !.reading = TRUE])

\* the input listener of the text component
textInputListener(m) == updateUIState([m EXCEPT !.requiredError = FALSE])

\* a destination listener that leaves the link type alone
handleDestInputNoSwitch(m) ==
    updateUIState(
        [m EXCEPT !.wasUrl = isUrl(m.destInput),
                  !.requiredError = FALSE])

handleDestInput(m) ==
    updateUIState(
        [m EXCEPT !.isWiki = IF isUrl(m.destInput) /\ m.isWiki THEN FALSE ELSE m.isWiki,
                  !.toggle = IF isUrl(m.destInput) /\ m.isWiki THEN FALSE ELSE m.toggle,
                  !.wasUrl = isUrl(m.destInput),
                  !.requiredError = FALSE])

\* a toggle handler that writes the conversion without testing it for null
convertedDestUnchecked(dest, value, isWiki) ==
    IF value /\ ~isWiki THEN markdownToWiki(dest)
    ELSE IF ~value /\ isWiki THEN wikiToMarkdown(dest)
    ELSE dest

\* what the toggle's onChange leaves in the destination component
convertedDest(dest, value, isWiki) ==
    IF value /\ ~isWiki
    THEN IF markdownToWiki(dest) # Null /\ markdownToWiki(dest) # dest
         THEN markdownToWiki(dest) ELSE dest
    ELSE IF ~value /\ isWiki
    THEN IF wikiToMarkdown(dest) # dest THEN wikiToMarkdown(dest) ELSE dest
    ELSE dest

\* the onChange callback of the link-type toggle
toggleOnChange(m, value) ==
    updateUIState(
        [m EXCEPT !.destInput = convertedDest(m.destInput, value, m.isWiki),
                  !.isWiki = value])

\* a click on the toggle flips the component and calls onChange; setValue
\* sets the component without calling it
toggleClick(m) == toggleOnChange([m EXCEPT !.toggle = ~m.toggle], ~m.toggle)

\* populateFromClipboard after the clipboard read resolved with a link
populateWith(m, parsedLink) ==
    updateUIState(
        [m EXCEPT !.textInput = IF trim(m.link.text) = <<>>
                                THEN parsedLink.text ELSE m.textInput,
                  !.destInput = IF trim(m.link.destination) = <<>>
                                THEN parsedLink.destination ELSE m.destInput,
                  !.link = LinkInfo(
                      IF trim(m.link.text) = <<>> THEN parsedLink.text ELSE m.link.text,
                      IF trim(m.link.destination) = <<>>
                      THEN parsedLink.destination ELSE m.link.destination,
                      m.link.isWiki, m.link.isEmbed),
                  !.isWiki = parsedLink.isWiki,
                  !.toggle = parsedLink.isWiki])

populateFromClipboard(m, parsedLink) ==
    IF parsedLink.found THEN populateWith([m EXCEPT !.reading = FALSE], parsedLink)
    ELSE [m EXCEPT !.reading = FALSE]

\* submit with the trimmed values of the two components
submitWith(m, linkText, linkDest) ==
    IF linkDest = <<>>
    THEN [m EXCEPT !.requiredError = TRUE]
    ELSE [m EXCEPT !.requiredError = FALSE,
                   !.submitted = [called |-> TRUE,
                                  text |-> IF linkText = <<>> THEN linkDest ELSE linkText,
                                  destination |-> linkDest,
                                  isWiki |-> m.isWiki,
                                  isEmbed |-> m.embedToggle],
                   !.open = FALSE,
                   !.closed = TRUE]

\* a submit that tests the values as typed
submitUntrimmed(m) == submitWith(m, m.textInput, m.destInput)

submit(m) == submitWith(m, trim(m.textInput), trim(m.destInput))

(***************************************************************************)
(* The modal's events.                                                     *)
(***************************************************************************)
OnOpen ==
    /\ ~modal.open /\ ~modal.closed
    /\ modal' = onOpen(modal)
    /\ last' = [op |-> "onOpen"]
    /\ UNCHANGED <<doc, cursor, selFrom, selTo, clipboard, visibleLink>>

\* the user switches the link-type toggle
ToggleLinkType ==
    /\ modal.open
    /\ modal' = operate(toggleClick(modal), "toggle")
    /\ last' = [op |-> "toggleLinkType", str |-> modal.destInput,
                wasWiki |-> modal.isWiki]
    /\ UNCHANGED <<doc, cursor, selFrom, selTo, clipboard, visibleLink>>

(***************************************************************************)
(* Skip position calculator.                                               *)
(***************************************************************************)
Pos(l, c) == [line |-> l, ch |-> c]

SkipResult(p, s) == [position |-> p, skipped |-> s]

\* linkCenter = (start + end) / 2 is a floating-point division, so
\* cursorCh <= linkCenter is exactly 2 * cursorCh <= start + end
isOnLeftSideStrict(cursorCh, start, end) == 2 * cursorCh < start + end

isOnLeftSideOf(cursorCh, start, end) == 2 * cursorCh <= start + end

\* skipWholeLine without the wrap to the other neighbour line
skipWholeLineNoWrap(cursorLine, lineCount, prevLineLength, isOnLeftSide, end) ==
    IF isOnLeftSide /\ cursorLine + 1 < lineCount
    THEN SkipResult(Pos(cursorLine + 1, 0), TRUE)
    ELSE IF ~isOnLeftSide /\ cursorLine > 0
    THEN SkipResult(Pos(cursorLine - 1, prevLineLength), TRUE)
    ELSE SkipResult(Pos(cursorLine, IF isOnLeftSide THEN end ELSE 0), TRUE)

\* skipRight landing on the link's end instead of one past it
skipRightOnEnd(cursorLine, lineLength, lineCount, start, end) ==
    IF end < lineLength
    THEN SkipResult(Pos(cursorLine, end), TRUE)
    ELSE IF cursorLine + 1 < lineCount
    THEN SkipResult(Pos(cursorLine + 1, 0), TRUE)
    ELSE IF start > 0
    THEN SkipResult(Pos(cursorLine, start - 1), TRUE)
    ELSE SkipResult(Pos(cursorLine, end), TRUE)

\* skipLeft preferring the previous line over the same line
skipLeftPrevFirst(cursorLine, lineLength, prevLineLength, start, end) ==
    IF cursorLine > 0
    THEN SkipResult(Pos(cursorLine - 1, prevLineLength), TRUE)
    ELSE IF start > 0
    THEN SkipResult(Pos(cursorLine, start - 1), TRUE)
    ELSE IF end < lineLength
    THEN SkipResult(Pos(cursorLine, end + 1), TRUE)
    ELSE SkipResult(Pos(cursorLine, 0), TRUE)

\* no link found, yet reported as a skip
skipNothingSkipped(cursorLine, cursorCh) == SkipResult(Pos(cursorLine, cursorCh), TRUE)

\* skipRight that never leaves the line
skipRightPastEnd(cursorLine, lineLength, lineCount, start, end) ==
    SkipResult(Pos(cursorLine, end + 1), TRUE)

\* link spans the entire line (start = 0 and end >= lineText.length)
skipWholeLine(cursorLine, lineCount, prevLineLength, isOnLeftSide, end) ==
    IF isOnLeftSide /\ cursorLine + 1 < lineCount
    THEN SkipResult(Pos(cursorLine + 1, 0), TRUE)
    ELSE IF isOnLeftSide /\ cursorLine > 0
    THEN SkipResult(Pos(cursorLine - 1, prevLineLength), TRUE)
    ELSE IF ~isOnLeftSide /\ cursorLine > 0
    THEN SkipResult(Pos(cursorLine - 1, prevLineLength), TRUE)
    ELSE IF ~isOnLeftSide /\ cursorLine + 1 < lineCount
    THEN SkipResult(Pos(cursorLine + 1, 0), TRUE)
    ELSE SkipResult(Pos(cursorLine, IF isOnLeftSide THEN end ELSE 0), TRUE)

\* normal case, cursor on the left side: skip right
skipRight(cursorLine, lineLength, lineCount, start, end) ==
    IF end < lineLength
    THEN SkipResult(Pos(cursorLine, end + 1), TRUE)
    ELSE IF cursorLine + 1 < lineCount
    THEN SkipResult(Pos(cursorLine + 1, 0), TRUE)
    ELSE IF start > 0
    THEN SkipResult(Pos(cursorLine, start - 1), TRUE)
    ELSE SkipResult(Pos(cursorLine, end), TRUE)

\* normal case, cursor on the right side: skip left
skipLeft(cursorLine, lineLength, prevLineLength, start, end) ==
    IF start > 0
    THEN SkipResult(Pos(cursorLine, start - 1), TRUE)
    ELSE IF cursorLine > 0
    THEN SkipResult(Pos(cursorLine - 1, prevLineLength), TRUE)
    ELSE IF end < lineLength
    THEN SkipResult(Pos(cursorLine, end + 1), TRUE)
    ELSE SkipResult(Pos(cursorLine, 0), TRUE)

\* the result when no link is found at the cursor
skipNothing(cursorLine, cursorCh) == SkipResult(Pos(cursorLine, cursorCh), FALSE)

\* determineSkipPosition without the branch for a link that spans the line
determineSkipPositionNoWholeLine(context) ==
    LET existingLink == detectLinkAtCursor(context.lineText, context.cursorCh)
    IN IF ~existingLink.found
       THEN skipNothing(context.cursorLine, context.cursorCh)
       ELSE IF isOnLeftSideOf(context.cursorCh, existingLink.start, existingLink.end)
       THEN skipRight(context.cursorLine, Len(context.lineText), context.lineCount,
                      existingLink.start, existingLink.end)
       ELSE skipLeft(context.cursorLine, Len(context.lineText), context.prevLineLength,
                     existingLink.start, existingLink.end)

determineSkipPosition(context) ==
    LET cursorCh == context.cursorCh
        lineText == context.lineText
        cursorLine == context.cursorLine
        lineCount == context.lineCount
        prevLineLength == context.prevLineLength
        existingLink == detectLinkAtCursor(lineText, cursorCh)
        start == existingLink.start
        end == existingLink.end
        isOnLeftSide == isOnLeftSideOf(cursorCh, start, end)
    IN IF ~existingLink.found
       THEN skipNothing(cursorLine, cursorCh)
       ELSE IF start = 0 /\ end >= Len(lineText)
       THEN skipWholeLine(cursorLine, lineCount, prevLineLength, isOnLeftSide, end)
       ELSE IF isOnLeftSide
       THEN skipRight(cursorLine, Len(lineText), lineCount, start, end)
       ELSE skipLeft(cursorLine, Len(lineText), prevLineLength, start, end)

\* computeSkipCursorPosition of modalLogic: the same calculation over an
\* already detected span
computeSkipCursorPosition(p) ==
    LET isOnLeftSide == isOnLeftSideOf(p.cursorPos, p.linkStart, p.linkEnd)
    IN IF p.linkStart = 0 /\ p.linkEnd >= p.lineLength
       THEN skipWholeLine(p.line, p.lineCount, p.prevLineLength, isOnLeftSide,
                          p.linkEnd).position
       ELSE IF isOnLeftSide
       THEN skipRight(p.line, p.lineLength, p.lineCount, p.linkStart, p.linkEnd).position
       ELSE skipLeft(p.line, p.lineLength, p.prevLineLength, p.linkStart,
                     p.linkEnd).position

(***************************************************************************)
(* The host editor, as the commands read it.                               *)
(***************************************************************************)
getLine(n) == doc[n + 1]

lineCount == Len(doc)

getSelection == Slice(getLine(cursor.line), selFrom, selTo)

somethingSelected == selFrom # selTo

prevLineLengthOf(line) == IF line > 0 THEN Len(getLine(line - 1)) ELSE 0

\* the SkipLinkContext the host builds for the cursor
skipLinkContext ==
    [cursorLine |-> cursor.line, cursorCh |-> cursor.ch,
     lineText |-> getLine(cursor.line), lineCount |-> lineCount,
     prevLineLength |-> prevLineLengthOf(cursor.line)]

(***************************************************************************)
(* Inputs.                                                                 *)
(***************************************************************************)
MaxLines == 3

WikiA == <<"[", "[", "a", "]", "]">>
WikiAB == <<"[", "[", "a", "|", "b", "]", "]">>
MdAB == <<"[", "a", "]", "(", "b", ")">>
EmbedA == <<"!", "[", "[", "a", "]", "]">>

\* "Check [[my-note]] for more"
ScenarioLine ==
    <<"C", "h", "e", "c", "k", " ", "[", "[", "m", "y", "-", "n", "o", "t", "e",
      "]", "]", " ", "f", "o", "r", " ", "m", "o", "r", "e">>

Pads == {<<>>, <<"a">>}

Links == {WikiA, WikiAB, MdAB, EmbedA}

SkipLines ==
    {p \o x \o s : p \in Pads, x \in Links, s \in Pads}
    \cup {x \o m \o y : x \in {WikiA, MdAB}, m \in Pads, y \in {WikiA, MdAB}}
    \cup {<<>>, <<"a", "a">>, ScenarioLine}

NeighbourLines == {<<>>, <<"a", "a">>}

NoCall == [op |-> "none"]

\* documents of 1..MaxLines lines with the cursor anywhere on line k
DocInit(lines) ==
    \E n \in 1..MaxLines, k \in 1..MaxLines, l \in lines, nb \in NeighbourLines :
        /\ k <= n
        /\ doc = [i \in 1..n |-> IF i = k THEN l ELSE nb]
        /\ \E c \in 0..Len(l) : cursor = Pos(k - 1, c)

(***************************************************************************)
(* Skip specification: the skip calculator and the command that uses it.   *)
(***************************************************************************)
SkipInit ==
    /\ DocInit(SkipLines)
    /\ selFrom = cursor.ch
    /\ selTo = cursor.ch
    /\ clipboard = <<>>
    /\ visibleLink \in BOOLEAN
    /\ modal = NoModal
    /\ last = NoCall

\* a call of determineSkipPosition on the cursor's context
CallDetermineSkipPosition ==
    /\ last' = [op |-> "determineSkipPosition", context |-> skipLinkContext,
                result |-> determineSkipPosition(skipLinkContext)]
    /\ UNCHANGED <<doc, cursor, selFrom, selTo, clipboard, visibleLink, modal>>

\* the "hide-link-syntax" command (close the link and skip over it)
HideLinkSyntax ==
    LET line == getLine(cursor.line)
        existingLink == detectLinkAtCursor(line, cursor.ch)
        skipPos == computeSkipCursorPosition(
                       [linkStart |-> existingLink.start, linkEnd |-> existingLink.end,
                        cursorPos |-> cursor.ch, lineLength |-> Len(line),
                        line |-> cursor.line, lineCount |-> lineCount,
                        prevLineLength |-> prevLineLengthOf(cursor.line)])
    IN IF ~existingLink.found
       THEN /\ last' = [op |-> "hide-link-syntax", before |-> cursor,
                        found |-> FALSE, setCursorCalled |-> FALSE]
            /\ UNCHANGED <<doc, cursor, selFrom, selTo, clipboard, visibleLink, modal>>
       ELSE /\ visibleLink' = FALSE
            /\ cursor' = skipPos
            /\ selFrom' = skipPos.ch
            /\ selTo' = skipPos.ch
            /\ last' = [op |-> "hide-link-syntax", before |-> cursor,
                        found |-> TRUE, setCursorCalled |-> TRUE]
            /\ UNCHANGED <<doc, clipboard, modal>>

SkipNext == CallDetermineSkipPosition \/ HideLinkSyntax

SkipSpec == SkipInit /\ [][SkipNext]_vars

(***************************************************************************)
(* Edit specification: the link operations and the edit-link commands.     *)
(***************************************************************************)
EditLines ==
    { <<>>,
      <<"a", " ", "b">>,
      <<" ", "w", "w", "w", ".", "a", " ">>,
      <<"a", " ", "W", "w", "w", ".", "a">>,
      <<"h", "t", "t", "p", ":", "/", "/", "a", " ", "b">>,
      <<"h", "t", "t", "p", "s", ":", "/", "/", "a">>,
      <<"w", "w", "w", ".", "a", " ", "w", "w", "w", ".", "a">>,
      WikiAB,
      <<"a">> \o MdAB,
      EmbedA \o <<"a">>,
      <<"w", "w", "w", ".", "a", " ">> \o WikiA }

Clipboards ==
    { <<>>,
      <<"a">>,
      <<" ", "w", "w", "w", ".", "b">>,
      <<"h", "t", "t", "p", ":", "/", "/", "b">>,
      WikiAB,
      MdAB }

EditInit ==
    /\ \E l \in EditLines :
          /\ doc = <<l>>
          /\ \E f \in 0..Len(l), t \in 0..Len(l) :
                /\ f <= t
                /\ selFrom = f
                /\ selTo = t
                /\ \E c \in {f, t} : cursor = Pos(0, c)
    /\ clipboard \in Clipboards
    /\ visibleLink = FALSE
    /\ modal = NoModal
    /\ last = NoCall

\* the EditorContext the host builds for the cursor
editorContext ==
    [cursorLine |-> cursor.line, cursorCh |-> cursor.ch,
     lineText |-> getLine(cursor.line), selection |-> getSelection,
     clipboardText |-> clipboard]

\* navigator.clipboard.readText() followed by trim(); a failed read leaves ""
readClipboard(ok) == IF ok THEN trim(clipboard) ELSE <<>>

CallDetermineLinkOperation ==
    /\ last' = [op |-> "determineLinkOperation", context |-> editorContext,
                result |-> determineLinkOperation(editorContext)]
    /\ UNCHANGED <<doc, cursor, selFrom, selTo, clipboard, visibleLink, modal>>

\* the caller may leave selectionFrom / selectionTo out
CallDetermineLinkOperationWithSelection ==
    \E ranged \in BOOLEAN :
        LET context ==
                [cursorLine |-> cursor.line, cursorCh |-> cursor.ch,
                 lineText |-> getLine(cursor.line), selection |-> getSelection,
                 clipboardText |-> clipboard, hasSelection |-> somethingSelected,
                 selectionFrom |-> IF ranged THEN Pos(cursor.line, selFrom) ELSE Undefined,
                 selectionTo |-> IF ranged THEN Pos(cursor.line, selTo) ELSE Undefined]
        IN /\ last' = [op |-> "determineLinkOperationWithSelection",
                       context |-> context,
                       result |-> determineLinkOperationWithSelection(context)]
           /\ UNCHANGED <<doc, cursor, selFrom, selTo, clipboard, visibleLink, modal>>

\* determineLinkFromContext as the new-link path calls it
CallDetermineLinkFromContext ==
    \E ok \in BOOLEAN :
        LET line == getLine(cursor.line)
            args == [selection |-> getSelection, clipboardText |-> readClipboard(ok),
                     cursorUrl |-> urlAtCursor(line, cursor.ch), line |-> line,
                     cursorCh |-> cursor.ch]
        IN /\ ~detectLinkAtCursor(line, cursor.ch).found
           /\ last' = [op |-> "determineLinkFromContext", args |-> args,
                       result |-> determineLinkFromContext(args)]
           /\ UNCHANGED <<doc, cursor, selFrom, selTo, clipboard, visibleLink, modal>>

\* the modal state for a new link: link, range and hints
newLinkModal(linkContext, cursorUrl, selection, clipboardText) ==
    [op |-> "edit-link", isNewLink |-> TRUE,
     link |-> LinkInfo(linkContext.text, linkContext.destination, linkContext.isWiki,
                       FALSE),
     start |-> IF somethingSelected THEN selFrom
               ELSE IF cursorUrl # Null THEN linkContext.start ELSE cursor.ch,
     end |-> IF somethingSelected THEN selTo
             ELSE IF cursorUrl # Null THEN linkContext.end ELSE cursor.ch,
     enteredFromLeft |-> TRUE,
     shouldSelectText |-> linkContext.shouldSelectText,
     conversionNotice |-> linkContext.conversionNotice,
     selection |-> selection, clipboardText |-> clipboardText,
     cursorUrl |-> cursorUrl]

\* the new-link path once cursorUrl is known
newLinkModalAt(cursorUrl, line, selection, clipboardText) ==
    newLinkModal(determineLinkFromContext(
                     [selection |-> selection, clipboardText |-> clipboardText,
                      cursorUrl |-> cursorUrl, line |-> line, cursorCh |-> cursor.ch]),
                 cursorUrl, selection, clipboardText)

\* what the edit-link callback hands to the modal
editLinkModal(existingLink, line, clipboardText) ==
    IF existingLink.found
    THEN [op |-> "edit-link", isNewLink |-> FALSE, link |-> existingLink.link,
          start |-> existingLink.start, end |-> existingLink.end,
          enteredFromLeft |-> existingLink.enteredFromLeft,
          shouldSelectText |-> FALSE, conversionNotice |-> Null,
          selection |-> <<>>, clipboardText |-> <<>>, cursorUrl |-> Null]
    ELSE newLinkModalAt(urlAtCursor(line, cursor.ch), line, getSelection, clipboardText)

\* the "edit-link" command of SteadyLinksPlugin, up to opening the modal
EditLink ==
    \E ok \in BOOLEAN :
        /\ last' = editLinkModal(detectLinkAtCursor(getLine(cursor.line), cursor.ch),
                                 getLine(cursor.line), readClipboard(ok))
        /\ UNCHANGED <<doc, cursor, selFrom, selTo, clipboard, visibleLink, modal>>

\* what the bundled edit-link callback hands to the modal
bundledModal(existingLink, new, selection, clipboardText) ==
    IF existingLink.found
    THEN [op |-> "bundled-edit-link", isNewLink |-> FALSE, link |-> existingLink.link,
          start |-> existingLink.start, end |-> existingLink.end,
          enteredFromLeft |-> existingLink.enteredFromLeft,
          shouldSelectText |-> FALSE, conversionNotice |-> Null,
          selection |-> <<>>, clipboardText |-> <<>>]
    ELSE [op |-> "bundled-edit-link", isNewLink |-> TRUE, link |-> new.link,
          start |-> IF somethingSelected THEN selFrom ELSE cursor.ch,
          end |-> IF somethingSelected THEN selTo ELSE cursor.ch,
          enteredFromLeft |-> TRUE,
          shouldSelectText |-> new.shouldSelectText,
          conversionNotice |-> new.conversionNotice,
          selection |-> selection, clipboardText |-> clipboardText]

\* the "edit-link" command of the bundled LinkEditorPlugin, up to opening the modal
BundledEditLink ==
    \E ok \in BOOLEAN :
        /\ last' = bundledModal(bundledLinkAtCursor(getLine(cursor.line), cursor.ch),
                                bundledNewLink(getSelection, readClipboard(ok)),
                                getSelection, readClipboard(ok))
        /\ UNCHANGED <<doc, cursor, selFrom, selTo, clipboard, visibleLink, modal>>

EditNext ==
    \/ CallDetermineLinkOperation
    \/ CallDetermineLinkOperationWithSelection
    \/ CallDetermineLinkFromContext
    \/ EditLink
    \/ BundledEditLink

EditSpec == EditInit /\ [][EditNext]_vars

(***************************************************************************)
(* Properties of the skip calculator.                                      *)
(***************************************************************************)
SkipCalled == last.op = "determineSkipPosition"

\* the link detected for the context of the last determineSkipPosition call
SkipLink == detectLinkAtCursor(last.context.lineText, last.context.cursorCh)

SkipLeftSide == 2 * last.context.cursorCh <= SkipLink.start + SkipLink.end

SkipWholeLine == SkipLink.start = 0 /\ SkipLink.end >= Len(last.context.lineText)

\* C1: for a whole-line link, from the left side the result is the next line
\* at ch 0 if there is one, else the previous line at prevLineLength if there
\* is one, else (cursorLine, end); from the right side it is the previous
\* line, else the next line, else (cursorLine, 0); skipped is always true.
C1_WholeLineLink ==
    (SkipCalled /\ SkipLink.found /\ SkipWholeLine) =>
        LET c == last.context
            next == Pos(c.cursorLine + 1, 0)
            prev == Pos(c.cursorLine - 1, c.prevLineLength)
        IN /\ last.result.skipped
           /\ last.result.position =
                 IF SkipLeftSide
                 THEN IF c.cursorLine + 1 < c.lineCount THEN next
                      ELSE IF c.cursorLine > 0 THEN prev
                      ELSE Pos(c.cursorLine, SkipLink.end)
                 ELSE IF c.cursorLine > 0 THEN prev
                      ELSE IF c.cursorLine + 1 < c.lineCount THEN next
                      ELSE Pos(c.cursorLine, 0)

\* a whole-line link on the last of several lines, entered on the left side:
\* the skip wraps to the end of the previous line
C1_Witness ==
    /\ SkipCalled /\ SkipLink.found /\ SkipWholeLine /\ SkipLeftSide
    /\ last.context.cursorLine > 0
    /\ last.context.cursorLine + 1 = last.context.lineCount
    /\ last.context.prevLineLength > 0
    /\ last.result.position = Pos(last.context.cursorLine - 1, last.context.prevLineLength)

\* C2: for a link that is not the whole line and a cursor on the left side the
\* result is (cursorLine, end+1) if end < length, else the next line at ch 0
\* if there is one, else (cursorLine, start-1) if start > 0, else
\* (cursorLine, end); "Check [[my-note]] for more" with cursor 8 on line 0
\* gives (0, 18), skipped.
C2_LeftSide ==
    /\ (SkipCalled /\ SkipLink.found /\ ~SkipWholeLine /\ SkipLeftSide) =>
          LET c == last.context
          IN /\ last.result.skipped
             /\ last.result.position =
                   IF SkipLink.end < Len(c.lineText) THEN Pos(c.cursorLine, SkipLink.end + 1)
                   ELSE IF c.cursorLine + 1 < c.lineCount THEN Pos(c.cursorLine + 1, 0)
                   ELSE IF SkipLink.start > 0 THEN Pos(c.cursorLine, SkipLink.start - 1)
                   ELSE Pos(c.cursorLine, SkipLink.end)
    /\ (SkipCalled /\ last.context.lineText = ScenarioLine
           /\ last.context.cursorLine = 0 /\ last.context.cursorCh = 8) =>
          last.result = SkipResult(Pos(0, 18), TRUE)

C2_Witness ==
    /\ SkipCalled /\ last.context.lineText = ScenarioLine
    /\ last.context.cursorLine = 0 /\ last.context.cursorCh = 8
    /\ last.result = SkipResult(Pos(0, 18), TRUE)

\* C3: for a link that is not the whole line and a cursor on the right side
\* the result is (cursorLine, start-1) if start > 0, else the previous line at
\* prevLineLength if cursorLine > 0, else (cursorLine, end+1) if end < length,
\* else (cursorLine, 0); "Check [[my-note]] for more" with cursor 15 on line 0
\* gives (0, 5), skipped.
C3_RightSide ==
    /\ (SkipCalled /\ SkipLink.found /\ ~SkipWholeLine /\ ~SkipLeftSide) =>
          LET c == last.context
          IN /\ last.result.skipped
             /\ last.result.position =
                   IF SkipLink.start > 0 THEN Pos(c.cursorLine, SkipLink.start - 1)
                   ELSE IF c.cursorLine > 0 THEN Pos(c.cursorLine - 1, c.prevLineLength)
                   ELSE IF SkipLink.end < Len(c.lineText)
                        THEN Pos(c.cursorLine, SkipLink.end + 1)
                   ELSE Pos(c.cursorLine, 0)
    /\ (SkipCalled /\ last.context.lineText = ScenarioLine
           /\ last.context.cursorLine = 0 /\ last.context.cursorCh = 15) =>
          last.result = SkipResult(Pos(0, 5), TRUE)

\* a link with text before it, on a line that has a previous line, entered
\* on the right side: the skip stays on the line, just before the link
C3_Witness ==
    /\ SkipCalled /\ SkipLink.found /\ ~SkipWholeLine /\ ~SkipLeftSide
    /\ SkipLink.start > 0
    /\ last.context.cursorLine > 0
    /\ last.result.position = Pos(last.context.cursorLine, SkipLink.start - 1)

\* C4: the cursor counts as on the left side exactly when
\* 2 * cursorCh <= start + end: where the link has text on both sides, a
\* cursor at or before the midpoint lands one past the link's end and a
\* cursor past the midpoint lands one before its start.
C4_MidpointIsLeft ==
    (SkipCalled /\ SkipLink.found /\ SkipLink.start > 0
       /\ SkipLink.end < Len(last.context.lineText)) =>
        /\ (2 * last.context.cursorCh <= SkipLink.start + SkipLink.end)
             <=> (last.result.position.ch = SkipLink.end + 1)
        /\ (2 * last.context.cursorCh > SkipLink.start + SkipLink.end)
             <=> (last.result.position.ch = SkipLink.start - 1)
        /\ last.result.position.line = last.context.cursorLine

\* the cursor exactly at the midpoint of the span is skipped rightward
C4_Witness ==
    /\ SkipCalled /\ SkipLink.found /\ SkipLink.start > 0
    /\ SkipLink.end < Len(last.context.lineText)
    /\ 2 * last.context.cursorCh = SkipLink.start + SkipLink.end
    /\ last.result.position.ch = SkipLink.end + 1

\* C5: determineSkipPosition reports skipped exactly when a link is found at
\* the cursor; with no link the position is (cursorLine, cursorCh) unchanged,
\* and the close/skip command then does not call setCursor and leaves the
\* cursor where it was.
C5_NoLinkNoSkip ==
    /\ SkipCalled =>
          /\ last.result.skipped <=> SkipLink.found
          /\ ~SkipLink.found =>
                last.result.position = Pos(last.context.cursorLine, last.context.cursorCh)
    /\ (last.op = "hide-link-syntax" /\ ~last.found) =>
          /\ ~last.setCursorCalled
          /\ cursor = last.before

\* a line that holds a link, with the cursor outside it
C5_Witness ==
    /\ SkipCalled
    /\ ~SkipLink.found
    /\ \E c \in 0..Len(last.context.lineText) :
           detectLinkAtCursor(last.context.lineText, c).found
    /\ ~last.result.skipped
    /\ last.result.position = Pos(last.context.cursorLine, last.context.cursorCh)

(***************************************************************************)
(* Properties of the link operations and the edit-link commands.           *)
(***************************************************************************)
OperationCalled ==
    last.op \in {"determineLinkOperation", "determineLinkOperationWithSelection"}

OperationLink == detectLinkAtCursor(last.context.lineText, last.context.cursorCh)

\* C6: whenever detectLinkAtCursor finds a link at the cursor,
\* determineLinkOperation and determineLinkOperationWithSelection return an
\* edit operation carrying exactly the detected link, start, end and
\* enteredFromLeft, with isNewLink = false, shouldSelectText = false and
\* conversionNotice = null, whatever the selection and the clipboard hold;
\* an operation with isNewLink = true is returned only when no link contains
\* the cursor.
C6_ExistingLinkIsEdited ==
    OperationCalled =>
        /\ OperationLink.found =>
              /\ last.result.link = OperationLink.link
              /\ last.result.start = OperationLink.start
              /\ last.result.end = OperationLink.end
              /\ last.result.enteredFromLeft = OperationLink.enteredFromLeft
              /\ ~last.result.isNewLink
              /\ ~last.result.shouldSelectText
              /\ last.result.conversionNotice = Null
        /\ last.result.isNewLink => ~OperationLink.found

\* a link entered from its right end, with text selected and a URL on the
\* clipboard
C6_Witness ==
    /\ last.op = "determineLinkOperationWithSelection"
    /\ OperationLink.found
    /\ ~OperationLink.enteredFromLeft
    /\ last.context.selection # <<>>
    /\ isUrl(last.context.clipboardText)
    /\ ~last.result.isNewLink
    /\ ~last.result.enteredFromLeft

\* the number of the first rule of the decision chain that matches
RuleOf(selection, clipboardText, cursorUrl) ==
    IF isUrl(selection) THEN 1
    ELSE IF selection # <<>> THEN 2
    ELSE IF cursorUrl # Null THEN 3
    ELSE IF parseClipboardLink(clipboardText).found THEN 4
    ELSE IF isUrl(clipboardText) THEN 5
    ELSE 6

\* text, destination and format each rule prescribes
RuleLink(rule, selection, clipboardText, cursorUrl) ==
    IF rule = 1
    THEN [text |-> trim(selection), destination |-> normalizeUrl(selection),
          isWiki |-> FALSE]
    ELSE IF rule = 2
    THEN [text |-> selection,
          destination |-> IF isUrl(clipboardText) THEN normalizeUrl(clipboardText)
                          ELSE clipboardText,
          isWiki |-> ~isUrl(clipboardText)]
    ELSE IF rule = 3
    THEN [text |-> normalizeUrl(cursorUrl), destination |-> normalizeUrl(cursorUrl),
          isWiki |-> FALSE]
    ELSE IF rule = 4
    THEN [text |-> parseClipboardLink(clipboardText).text,
          destination |-> parseClipboardLink(clipboardText).destination,
          isWiki |-> parseClipboardLink(clipboardText).isWiki]
    ELSE IF rule = 5
    THEN [text |-> normalizeUrl(clipboardText),
          destination |-> normalizeUrl(clipboardText), isWiki |-> FALSE]
    ELSE [text |-> <<>>, destination |-> clipboardText, isWiki |-> TRUE]

SelectionUrlLink(selection, text, destination, isWiki, shouldSelectText, notice) ==
    /\ text = trim(selection)
    /\ destination = normalizeUrl(selection)
    /\ (PrefixAt(trim(selection), 0, HttpPrefix)
          \/ PrefixAt(trim(selection), 0, HttpsPrefix)) => destination = trim(selection)
    /\ (~PrefixAt(trim(selection), 0, HttpPrefix)
          /\ ~PrefixAt(trim(selection), 0, HttpsPrefix)) =>
             destination = HttpsPrefix \o trim(selection)
    /\ ~isWiki
    /\ shouldSelectText
    /\ (notice # Null) <=> (destination # trim(selection))
    /\ notice # Null =>
          notice = <<"URL converted: ">> \o trim(selection) \o <<" -> ">> \o destination

\* C8: when the selection is a URL, the new link has text = the selection
\* trimmed of surrounding whitespace, destination = normalizeUrl(selection)
\* (unchanged for http:// and https://, prefixed with https:// for www.),
\* isWiki = false, shouldSelectText = true, and a conversion notice exactly
\* when the normalized string differs from the trimmed selection; the
\* clipboard has no influence on any of these fields.
C8_SelectionIsUrl ==
    /\ (last.op = "determineLinkFromContext" /\ isUrl(last.args.selection)) =>
          SelectionUrlLink(last.args.selection, last.result.text,
                           last.result.destination, last.result.isWiki,
                           last.result.shouldSelectText, last.result.conversionNotice)
    /\ (last.op \in {"edit-link", "bundled-edit-link"} /\ last.isNewLink
           /\ isUrl(last.selection)) =>
          SelectionUrlLink(last.selection, last.link.text, last.link.destination,
                           last.link.isWiki, last.shouldSelectText,
                           last.conversionNotice)
    /\ (OperationCalled /\ last.result.isNewLink /\ isUrl(last.context.selection)) =>
          SelectionUrlLink(last.context.selection, last.result.link.text,
                           last.result.link.destination, last.result.link.isWiki,
                           last.result.shouldSelectText, last.result.conversionNotice)

\* the bundled command on a www. selection padded with blanks, with a URL on
\* the clipboard: the text keeps the www. form, the destination gets https://
C8_Witness ==
    /\ last.op = "bundled-edit-link"
    /\ last.isNewLink
    /\ isUrl(last.selection)
    /\ trim(last.selection) # last.selection
    /\ isUrl(last.clipboardText)
    /\ last.link.text = trim(last.selection)
    /\ last.link.destination = HttpsPrefix \o trim(last.selection)
    /\ last.conversionNotice # Null

\* C9: with an empty selection, no link at the cursor and a URL touching the
\* cursor, determineLinkOperation returns a new-link operation with
\* text = destination = normalizeUrl(cursorUrl), isWiki = false,
\* shouldSelectText = true, and start/end equal to the URL's own span, so
\* that lineText.slice(start, end) is the URL and not the cursor point.
C9_CursorUrlSpan ==
    (last.op = "determineLinkOperation" /\ last.context.selection = <<>>
       /\ ~OperationLink.found
       /\ urlAtCursor(last.context.lineText, last.context.cursorCh) # Null) =>
        LET cursorUrl == urlAtCursor(last.context.lineText, last.context.cursorCh)
            r == last.result
        IN /\ r.isNewLink
           /\ r.link.text = normalizeUrl(cursorUrl)
           /\ r.link.destination = normalizeUrl(cursorUrl)
           /\ ~r.link.isWiki
           /\ r.shouldSelectText
           /\ r.start < r.end
           /\ r.start <= last.context.cursorCh /\ last.context.cursorCh <= r.end
           /\ Slice(last.context.lineText, r.start, r.end) = cursorUrl

\* the cursor strictly inside a www. URL that has text before it
C9_Witness ==
    /\ last.op = "determineLinkOperation"
    /\ last.context.selection = <<>>
    /\ ~OperationLink.found
    /\ urlAtCursor(last.context.lineText, last.context.cursorCh) # Null
    /\ last.result.start > 0
    /\ last.result.start < last.context.cursorCh
    /\ last.context.cursorCh < last.result.end
    /\ last.result.link.destination # urlAtCursor(last.context.lineText,
                                                   last.context.cursorCh)

\* an edit-link command that made a new link with nothing selected, no link
\* and no URL at the cursor, and something on the clipboard
ClipboardOnlyNewLink ==
    /\ last.op \in {"edit-link", "bundled-edit-link"}
    /\ last.isNewLink
    /\ last.selection = <<>>
    /\ ~detectLinkAtCursor(getLine(cursor.line), cursor.ch).found
    /\ urlAtCursor(getLine(cursor.line), cursor.ch) = Null
    /\ last.clipboardText # <<>>

\* C10: when a new link is created with no selection and no link or URL at
\* the cursor, a clipboard that contains a URL goes to the link destination,
\* and a clipboard that contains non-URL text goes to the link text.
C10_ClipboardPlacement ==
    ClipboardOnlyNewLink =>
        /\ isUrl(last.clipboardText) =>
              last.link.destination = normalizeUrl(last.clipboardText)
        /\ ~isUrl(last.clipboardText) => last.link.text = last.clipboardText

(***************************************************************************)
(* Detect specification: the cursor link locator on its own.               *)
(***************************************************************************)
MyNoteLine == <<"[", "[", "m", "y", "-", "n", "o", "t", "e", "|", "M", "y", " ", "N", "o", "t", "e", "]", "]">>

DetectLines ==
    { <<>>,
      <<"a", "[", "a", "]", "(", "b", ")", "a">>,
      <<"[", "a", "]", "(", "[", "[", "b", "]", "]", ")">>,
      <<"[", "a", "]", "(", "b", ")", "[", "a", "]", "(", "b", ")">>,
      <<"[", "[", "a", "]", "]", "[", "[", "a", "|", "b", "]", "]">>,
      <<"!", "[", "[", "a", "]", "]", "a">>,
      <<"!", "[", "a", "]", "(", "b", ")">>,
      <<"[", "]", "(", "b", ")">>,
      MyNoteLine,
      <<"a", " ", "b">>,
      <<"[", "[", "a", "]">>,
      <<"[", "[", "a", "]", "(", "b", ")">> }

DetectInit ==
    /\ \E l \in DetectLines :
          /\ doc = <<l>>
          /\ \E c \in 0..Len(l) :
                /\ cursor = Pos(0, c)
                /\ selFrom = c
                /\ selTo = c
    /\ clipboard \in {<<>>, <<"a">>}
    /\ visibleLink = FALSE
    /\ modal = NoModal
    /\ last = NoCall

CallDetectLinkAtCursor ==
    /\ last' = [op |-> "detectLinkAtCursor", line |-> getLine(cursor.line),
                ch |-> cursor.ch,
                result |-> detectLinkAtCursor(getLine(cursor.line), cursor.ch)]
    /\ UNCHANGED <<doc, cursor, selFrom, selTo, clipboard, visibleLink, modal>>

DetectNext ==
    \/ CallDetectLinkAtCursor
    \/ CallDetermineLinkOperation
    \/ BundledEditLink

DetectSpec == DetectInit /\ [][DetectNext]_vars

(***************************************************************************)
(* Properties of the cursor link locator.                                  *)
(***************************************************************************)
\* one attempt of the markdown or wiki pattern, of utils or of the bundle
PatternAt(kind, bundled, line, i) ==
    IF kind = "md"
    THEN IF bundled THEN mdRegexAt(line, i) ELSE mdMatchAt(line, i)
    ELSE IF bundled THEN wikiRegexAt(line, i) ELSE wikiMatchAt(line, i)

\* the spans of all matches of a pattern, left to right, non-overlapping
RECURSIVE Spans(_, _, _, _)
Spans(kind, bundled, line, from) ==
    IF from >= Len(line) THEN <<>>
    ELSE IF PatternAt(kind, bundled, line, from).ok
    THEN <<[start |-> from, end |-> PatternAt(kind, bundled, line, from).end]>>
         \o Spans(kind, bundled, line, PatternAt(kind, bundled, line, from).end)
    ELSE Spans(kind, bundled, line, from + 1)

\* the indices of the spans that contain ch, both bounds inclusive
Hits(ss, ch) == {i \in DOMAIN ss : ss[i].start <= ch /\ ch <= ss[i].end}

FirstHit(ss, ch) == ss[CHOOSE i \in Hits(ss, ch) : \A j \in Hits(ss, ch) : i <= j]

\* what the locator must report for the given line and offset
LocatorAgrees(bundled, line, ch, found, isWiki, start, end) ==
    LET md == Spans("md", bundled, line, 0)
        wiki == Spans("wiki", bundled, line, 0)
    IN IF Hits(md, ch) # {}
       THEN /\ found /\ ~isWiki
            /\ start = FirstHit(md, ch).start /\ end = FirstHit(md, ch).end
       ELSE IF Hits(wiki, ch) # {}
       THEN /\ found /\ isWiki
            /\ start = FirstHit(wiki, ch).start /\ end = FirstHit(wiki, ch).end
       ELSE ~found

\* C11: detectLinkAtCursor scans markdown links first, left to right, and
\* returns the first one whose span contains ch with both bounds inclusive;
\* only when no markdown link contains ch does it consider wiki links under
\* the same rule; it returns null when the cursor is inside neither.  A
\* position covered by a markdown match and a wiki match is reported as the
\* markdown link.  The bundled edit-link scan obeys the same order.
C11_MarkdownBeforeWiki ==
    /\ last.op = "detectLinkAtCursor" =>
          LocatorAgrees(FALSE, last.line, last.ch, last.result.found,
                        last.result.link.isWiki, last.result.start, last.result.end)
    /\ last.op = "bundled-edit-link" =>
          LocatorAgrees(TRUE, getLine(cursor.line), cursor.ch, ~last.isNewLink,
                        last.link.isWiki, last.start, last.end)

\* the bundled scan with the cursor inside a wiki link that sits in the
\* destination of a markdown link
C11_Witness ==
    /\ last.op = "bundled-edit-link"
    /\ Hits(Spans("md", TRUE, getLine(cursor.line), 0), cursor.ch) # {}
    /\ Hits(Spans("wiki", TRUE, getLine(cursor.line), 0), cursor.ch) # {}
    /\ ~last.isNewLink
    /\ ~last.link.isWiki

\* a locator result, from utils or from the bundled scan
LocatorFound ==
    \/ last.op = "detectLinkAtCursor" /\ last.result.found
    \/ last.op = "bundled-edit-link" /\ ~last.isNewLink

LocatorResult ==
    IF last.op = "detectLinkAtCursor"
    THEN [ch |-> last.ch, isWiki |-> last.result.link.isWiki,
          start |-> last.result.start,
          enteredFromLeft |-> last.result.enteredFromLeft]
    ELSE [ch |-> cursor.ch, isWiki |-> last.link.isWiki, start |-> last.start,
          enteredFromLeft |-> last.enteredFromLeft]

C13_LeftHalfEnteredFromLeft ==
    (last.op = "determineLinkOperation" /\ ~last.result.isNewLink) =>
        /\ (2 * last.context.cursorCh < last.result.start + last.result.end) =>
               last.result.enteredFromLeft
        /\ (2 * last.context.cursorCh > last.result.start + last.result.end) =>
               ~last.result.enteredFromLeft
        /\ (last.context.lineText = MyNoteLine /\ last.context.cursorCh = 5) =>
               last.result.enteredFromLeft
        /\ (last.context.lineText = MyNoteLine /\ last.context.cursorCh = 15) =>
               ~last.result.enteredFromLeft

(***************************************************************************)
(* Utils specification: the pure string functions applied to an input.     *)
(***************************************************************************)
WwwExampleCom == <<"w", "w", "w", ".", "e", "x", "a", "m", "p", "l", "e", ".", "c", "o", "m">>
HtpExampleCom == <<"h", "t", "p", ":", "/", "/", "e", "x", "a", "m", "p", "l", "e", ".", "c", "o", "m">>
HtpsExampleCom == <<"h", "t", "p", "s", ":", "/", "/", "e", "x", "a", "m", "p", "l", "e", ".", "c", "o", "m">>
ExampleCom == <<"e", "x", "a", "m", "p", "l", "e", ".", "c", "o", "m">>
JustText == <<"j", "u", "s", "t", " ", "t", "e", "x", "t">>

\* one character more than the validator tolerates without a warning
LongDestination == [i \in 1..(MaxDestLength + 1) |-> "a"]
PipeDestination == <<"a", "|", "b">>
HeadingDestination == <<"a", "#", "^", "b">>

UtilPrefixes ==
    { <<>>,
      <<"h", "t", "t", "p", ":", "/", "/">>,
      <<"h", "t", "t", "p", "s", ":", "/", "/">>,
      <<"H", "T", "T", "P", ":", "/", "/">>,
      <<"H", "t", "t", "p", "s", ":", "/", "/">>,
      <<"w", "w", "w", ".">>,
      <<"W", "W", "W", ".">>,
      <<"h", "t", "p", ":", "/", "/">>,
      <<"h", "t", "p", "s", ":", "/", "/">>,
      <<"H", "T", "P", ":", "/", "/">>,
      <<"h", "t", "t", "p", ":", "/">>,
      <<"h", "t", "t", "p", "s", "/", "/">> }

UtilBodies ==
    { <<>>,
      <<"a">>,
      <<"a", ".", "b">>,
      <<"a", " ", "b">>,
      <<"/", "a">>,
      <<"a", "-", "1">>,
      <<"a", "/", "b">>,
      <<"a", "^", "b">>,
      <<"a", "%", "2", "0", "b">> }

UtilPads == {<<>>, <<" ">>}

\* the strings handed to the functions: prefix and body, possibly padded
UtilInputs ==
    {l \o p \o b \o r : l \in UtilPads, p \in UtilPrefixes, b \in UtilBodies,
                         r \in UtilPads}
      \cup {WwwExampleCom, HtpExampleCom, HtpsExampleCom, ExampleCom, JustText}
      \cup {PipeDestination, HeadingDestination}

\* the string under test sits on the clipboard
UtilsInit ==
    /\ doc = <<<<>>>>
    /\ cursor = Pos(0, 0)
    /\ selFrom = 0
    /\ selTo = 0
    /\ clipboard \in UtilInputs
    /\ visibleLink = FALSE
    /\ modal = LinkEditModal(LinkInfo(<<"a">>, clipboard, FALSE, FALSE), FALSE)
    /\ last = NoCall

CallIsUrl ==
    /\ last' = [op |-> "isUrl", str |-> clipboard, result |-> isUrl(clipboard)]
    /\ UNCHANGED <<doc, cursor, selFrom, selTo, clipboard, visibleLink, modal>>

CallIsAlmostUrl ==
    /\ last' = [op |-> "isAlmostUrl", str |-> clipboard,
                result |-> isAlmostUrl(clipboard)]
    /\ UNCHANGED <<doc, cursor, selFrom, selTo, clipboard, visibleLink, modal>>

CallNormalizeUrl ==
    /\ last' = [op |-> "normalizeUrl", str |-> clipboard,
                result |-> normalizeUrl(clipboard)]
    /\ UNCHANGED <<doc, cursor, selFrom, selTo, clipboard, visibleLink, modal>>

CallWikiToMarkdown ==
    /\ last' = [op |-> "wikiToMarkdown", str |-> clipboard,
                result |-> wikiToMarkdown(clipboard)]
    /\ UNCHANGED <<doc, cursor, selFrom, selTo, clipboard, visibleLink, modal>>

CallMarkdownToWiki ==
    /\ last' = [op |-> "markdownToWiki", str |-> clipboard,
                result |-> markdownToWiki(clipboard)]
    /\ UNCHANGED <<doc, cursor, selFrom, selTo, clipboard, visibleLink, modal>>

\* markdownToWiki(wikiToMarkdown(s))
CallRoundTrip ==
    /\ last' = [op |-> "roundTrip", str |-> clipboard,
                encoded |-> wikiToMarkdown(clipboard),
                result |-> markdownToWiki(wikiToMarkdown(clipboard))]
    /\ UNCHANGED <<doc, cursor, selFrom, selTo, clipboard, visibleLink, modal>>

CallIsValidWikiLink ==
    /\ last' = [op |-> "isValidWikiLink", str |-> clipboard,
                result |-> isValidWikiLink(clipboard)]
    /\ UNCHANGED <<doc, cursor, selFrom, selTo, clipboard, visibleLink, modal>>

CallIsValidMarkdownLink ==
    /\ last' = [op |-> "isValidMarkdownLink", str |-> clipboard,
                result |-> isValidMarkdownLink(clipboard)]
    /\ UNCHANGED <<doc, cursor, selFrom, selTo, clipboard, visibleLink, modal>>

CallValidateLinkDestination ==
    \E isWiki \in BOOLEAN, destination \in {clipboard, LongDestination} :
        /\ last' = [op |-> "validateLinkDestination", str |-> destination,
                    isWiki |-> isWiki,
                    result |-> validateLinkDestination(destination, <<"a">>, isWiki)]
        /\ UNCHANGED <<doc, cursor, selFrom, selTo, clipboard, visibleLink, modal>>

UtilsNext ==
    \/ OnOpen
    \/ ToggleLinkType
    \/ CallValidateLinkDestination
    \/ CallIsUrl
    \/ CallIsAlmostUrl
    \/ CallNormalizeUrl
    \/ CallWikiToMarkdown
    \/ CallMarkdownToWiki
    \/ CallRoundTrip
    \/ CallIsValidWikiLink
    \/ CallIsValidMarkdownLink

UtilsSpec == UtilsInit /\ [][UtilsNext]_vars

(***************************************************************************)
(* Properties of the URL classifier.                                       *)
(***************************************************************************)
\* s begins with p, letters compared without regard to case
StartsWith(s, p) ==
    /\ Len(s) >= Len(p)
    /\ [i \in 1..Len(p) |-> Lower(s[i])] = p

HasWhitespace(s) == \E i \in 1..Len(s) : s[i] = " "

\* C14: isUrl(s) is true exactly when the trimmed s is 'http://' or
\* 'https://' followed by one or more non-whitespace characters up to the
\* end, or 'www.' followed by one or more non-whitespace characters up to
\* the end, compared case-insensitively; it is false for the empty string,
\* whitespace-only strings, strings with inner whitespace and bare domains
\* such as 'example.com'.
C14_IsUrlGrammar ==
    last.op = "isUrl" =>
        /\ last.result <=>
              /\ ~HasWhitespace(trim(last.str))
              /\ \E p \in {HttpPrefix, HttpsPrefix, WwwPrefix} :
                    StartsWith(trim(last.str), p) /\ Len(trim(last.str)) > Len(p)
        /\ trim(last.str) = <<>> => ~last.result
        /\ HasWhitespace(trim(last.str)) => ~last.result
        /\ last.str = ExampleCom => ~last.result

\* an upper-case scheme padded with blanks is a URL
C14_Witness ==
    /\ last.op = "isUrl"
    /\ last.result
    /\ last.str # trim(last.str)
    /\ SubSeq(trim(last.str), 1, 4) = <<"H", "T", "T", "P">>

C16_AlmostUrlExamples ==
    (last.op = "isAlmostUrl"
       /\ last.str \in {HtpExampleCom, HtpsExampleCom, WwwExampleCom}) =>
        last.result

(***************************************************************************)
(* Properties of the codec.                                                *)
(***************************************************************************)
\* s holds p as a contiguous piece
Contains(s, p) == \E i \in 0..(Len(s) - Len(p)) : SubSeq(s, i + 1, i + Len(p)) = p

Severities(warnings) == {warnings[i].severity : i \in 1..Len(warnings)}

Kinds(warnings) == {warnings[i].kind : i \in 1..Len(warnings)}

SeverityOf(warnings, kind) ==
    {warnings[i].severity : i \in {j \in 1..Len(warnings) : warnings[j].kind = kind}}

HttpA == <<"h", "t", "t", "p", ":", "/", "/", "a">>
WwwB == <<"w", "w", "w", ".", "b">>
WikiCD == <<"[", "[", "c", " ", "d", "]", "]">>
MdCD == <<"[", "c", "]", "(", "d", ")">>

\* the links the modal is constructed with: new links with an empty text or
\* destination, existing links with both
ModalLinks ==
    {LinkInfo(t, d, w, FALSE) :
        t \in {<<>>, <<"a">>}, d \in {<<>>, <<"a", " ", "b">>, HttpA}, w \in BOOLEAN}

\* what the user types into the text and the destination component
TextValues == {<<" ">>, <<"b">>}
DestValues == {<<" ">>, <<"b", " ", "c">>, WwwB}

ModalClipboards == {<<>>, WikiCD, MdCD}

ModalInit ==
    /\ doc = <<<<>>>>
    /\ cursor = Pos(0, 0)
    /\ selFrom = 0
    /\ selTo = 0
    /\ clipboard \in ModalClipboards
    /\ visibleLink = FALSE
    /\ \E link \in ModalLinks :
          modal = LinkEditModal(link, link.text = <<>> \/ link.destination = <<>>)
    /\ last = NoCall

TextInput ==
    \E value \in TextValues :
        /\ modal.open
        /\ modal' = operate(textInputListener([modal EXCEPT !.textInput = value]), "text")
        /\ last' = [op |-> "textInput"]
        /\ UNCHANGED <<doc, cursor, selFrom, selTo, clipboard, visibleLink>>

DestInput ==
    \E value \in DestValues :
        /\ modal.open
        /\ modal' = operate(handleDestInput([modal EXCEPT !.destInput = value]),
                            "destination")
        /\ last' = [op |-> "destInput", wasWiki |-> modal.isWiki]
        /\ UNCHANGED <<doc, cursor, selFrom, selTo, clipboard, visibleLink>>

\* the clipboard read that onOpen started resolves, or is rejected
ClipboardRead ==
    \E ok \in BOOLEAN :
        /\ modal.open \/ modal.closed
        /\ modal.reading
        /\ modal' = IF ok THEN populateFromClipboard(modal, parseClipboardLink(clipboard))
                     ELSE [modal EXCEPT !.reading = FALSE]
        /\ last' = [op |-> "populateFromClipboard", resolved |-> ok,
                    textInput |-> modal.textInput, destInput |-> modal.destInput]
        /\ UNCHANGED <<doc, cursor, selFrom, selTo, clipboard, visibleLink>>

\* the Apply button, or Enter
Submit ==
    /\ modal.open
    /\ modal' = submit(modal)
    /\ last' = [op |-> "submit"]
    /\ UNCHANGED <<doc, cursor, selFrom, selTo, clipboard, visibleLink>>

Escape ==
    /\ modal.open
    /\ modal' = [modal EXCEPT !.open = FALSE, !.closed = TRUE]
    /\ last' = [op |-> "escape"]
    /\ UNCHANGED <<doc, cursor, selFrom, selTo, clipboard, visibleLink>>

ModalNext ==
    \/ OnOpen
    \/ TextInput
    \/ DestInput
    \/ ToggleLinkType
    \/ ClipboardRead
    \/ Submit
    \/ Escape

ModalSpec == ModalInit /\ [][ModalNext]_vars

(***************************************************************************)
(* Properties of submit.                                                   *)
(***************************************************************************)
\* C20: after any sequence of text input, destination input, toggle and
\* clipboard-population events in the edit modal, submit calls onSubmit only
\* with a LinkInfo whose destination is non-empty after trimming and whose
\* text is non-empty (an empty trimmed text is replaced by the destination);
\* when the trimmed destination is empty, submit does not call onSubmit,
\* does not close the modal, and shows a 'Destination is required' error.
C20_SubmitNeedsDestination ==
    /\ last.op = "submit" =>
           IF trim(modal.destInput) = <<>>
           THEN /\ ~modal.submitted.called
                /\ modal.open /\ ~modal.closed
                /\ modal.requiredError
           ELSE /\ modal.submitted.called
                /\ modal.closed
                /\ modal.submitted.destination = trim(modal.destInput)
                /\ modal.submitted.text =
                       (IF trim(modal.textInput) = <<>> THEN trim(modal.destInput)
                        ELSE trim(modal.textInput))
    /\ modal.submitted.called =>
           /\ modal.submitted.text # <<>>
           /\ trim(modal.submitted.destination) # <<>>

\* an accepted submit whose text came from the destination, after the
\* clipboard read resolved
C20_Witness ==
    /\ last.op = "submit"
    /\ modal.submitted.called
    /\ trim(modal.textInput) = <<>>
    /\ modal.submitted.text = modal.submitted.destination
    /\ ~modal.reading

\* a submit refused for its blank destination
C20_WitnessRefused ==
    /\ last.op = "submit"
    /\ modal.destInput = <<" ">>
    /\ modal.requiredError
    /\ modal.open

(***************************************************************************)
(* Properties of URLs in the codec and under the link-type toggle.         *)
(***************************************************************************)
\* C18: for every string u with isUrl(u) true, markdownToWiki(u) returns null
\* (not the unchanged string), wikiToMarkdown(u) returns u unchanged,
\* isValidWikiLink(u) is false and isValidMarkdownLink(u) is true;
\* consequently toggling the edit modal from markdown to wiki with a URL
\* destination leaves the destination field unchanged.
C18_UrlExclusion ==
    /\ (last.op = "markdownToWiki" /\ isUrl(last.str)) => last.result = Null
    /\ (last.op = "wikiToMarkdown" /\ isUrl(last.str)) => last.result = last.str
    /\ (last.op = "isValidWikiLink" /\ isUrl(last.str)) => last.result = FALSE
    /\ (last.op = "isValidMarkdownLink" /\ isUrl(last.str)) => last.result = TRUE
    /\ (last.op = "toggleLinkType" /\ ~last.wasWiki /\ isUrl(last.str)) =>
           (modal.isWiki /\ modal.destInput = last.str)

\* the toggle went from markdown to wiki over a URL, which the validator
\* now reports as an error
C18_Witness ==
    /\ last.op = "toggleLinkType"
    /\ ~last.wasWiki
    /\ isUrl(last.str)
    /\ modal.isWiki
    /\ ~modal.validation.isValid

(***************************************************************************)
(* Properties of the modal's link type.                                    *)
(***************************************************************************)
\* C21: the edit modal auto-switches to Markdown when a URL is detected: if
\* the link's destination is a URL when the modal opens, isWiki starts false
\* whatever link.isWiki says, and after every destination input event that
\* leaves a value with isUrl true, isWiki is false and the link-type toggle
\* shows false.
C21_UrlSwitchesToMarkdown ==
    /\ (last.op = "onOpen" /\ isUrl(modal.link.destination)) =>
           (~modal.isWiki /\ ~modal.toggle)
    /\ (last.op = "destInput" /\ isUrl(modal.destInput)) =>
           (~modal.isWiki /\ ~modal.toggle)

\* a URL was typed into the destination of a wiki link
C21_Witness ==
    /\ last.op = "destInput"
    /\ last.wasWiki
    /\ isUrl(modal.destInput)
    /\ ~modal.isWiki

\* the modal opened on a wiki link to a URL
C21_WitnessOpen ==
    /\ last.op = "onOpen"
    /\ modal.link.isWiki
    /\ isUrl(modal.link.destination)

(***************************************************************************)
(* Apply specification: the bundled edit-link command with the callback    *)
(* that writes the edited link back into the line.                         *)
(***************************************************************************)
MaxLineLength == 12

\* the replacement text the onSubmit callback builds
bundledReplacement(result) ==
    IF result.isWiki
    THEN IF result.text = result.destination
         THEN <<"[", "[">> \o result.destination \o <<"]", "]">>
         ELSE <<"[", "[">> \o result.destination \o <<"|">> \o result.text
                  \o <<"]", "]">>
    ELSE <<"[">> \o result.text \o <<"]", "(">> \o result.destination \o <<")">>

\* editor.replaceRange within one line
replaceRange(line, replacement, start, end) ==
    Slice(line, 0, start) \o replacement \o Slice(line, end, Len(line))

\* the ch the callback hands to editor.setCursor
bundledCursorCh(alwaysMoveToEnd, enteredFromLeft, start, replacement) ==
    IF alwaysMoveToEnd THEN start + Len(replacement)
    ELSE IF enteredFromLeft THEN start + Len(replacement) ELSE start

ApplyLines ==
    { <<"a", " ", "b">>,
      <<"a">> \o MdAB \o <<"a">>,
      WikiAB \o <<"a">>,
      WikiA }

\* what the modal hands to onSubmit: the link as it was, or edited fields
ApplyResults(link) ==
    {[text |-> t, destination |-> d, isWiki |-> w] :
        t \in {link.text, <<"c">>}, d \in {link.destination, <<"d">>}, w \in BOOLEAN}

ApplyInit ==
    /\ \E l \in ApplyLines :
          /\ doc = <<l>>
          /\ \E c \in 0..Len(l) : cursor = Pos(0, c) /\ selFrom = c /\ selTo = c
    /\ clipboard \in {<<>>, <<"a">>}
    /\ visibleLink = FALSE
    /\ modal = NoModal
    /\ last = NoCall

\* the modal of the bundled command submits: the onSubmit callback runs
applyTo(line, replacement, alwaysMoveToEnd) ==
    /\ Len(replaceRange(line, replacement, last.start, last.end)) <= MaxLineLength
    /\ doc' = [doc EXCEPT ![cursor.line + 1] =
                   replaceRange(line, replacement, last.start, last.end)]
    /\ cursor' = Pos(cursor.line,
                     bundledCursorCh(alwaysMoveToEnd, last.enteredFromLeft, last.start,
                                     replacement))
    /\ selFrom' = cursor'.ch
    /\ selTo' = cursor'.ch
    /\ last' = [op |-> "bundled-apply", before |-> cursor,
                alwaysMoveToEnd |-> alwaysMoveToEnd, start |-> last.start,
                end |-> last.end, enteredFromLeft |-> last.enteredFromLeft,
                replacement |-> replacement]
    /\ UNCHANGED <<clipboard, visibleLink, modal>>

BundledApplyEdit ==
    /\ last.op = "bundled-edit-link"
    /\ \E result \in ApplyResults(last.link), alwaysMoveToEnd \in BOOLEAN :
          applyTo(getLine(cursor.line), bundledReplacement(result), alwaysMoveToEnd)

ApplyNext == BundledEditLink \/ BundledApplyEdit

ApplySpec == ApplyInit /\ [][ApplyNext]_vars

(***************************************************************************)
(* Properties of the cursor after an edit.                                 *)
(***************************************************************************)
\* C22: with the setting 'Always move cursor to end' disabled, after an edit
\* is applied through the Edit Link command the cursor returns to the
\* position (line, ch) it had when the command was invoked.
C22_CursorReturns ==
    (last.op = "bundled-apply" /\ ~last.alwaysMoveToEnd) => cursor = last.before

\* what the callback does instead: the cursor goes to one end of the
\* replacement, chosen by the side the cursor entered the link from
C22_CursorAtAnEnd ==
    (last.op = "bundled-apply" /\ ~last.alwaysMoveToEnd) =>
        /\ cursor.line = last.before.line
        /\ cursor.ch = IF last.enteredFromLeft
                       THEN last.start + Len(last.replacement) ELSE last.start

(***************************************************************************)
(* Suggestion query parser.                                                *)
(***************************************************************************)
\* String.prototype.startsWith / indexOf / includes / split
startsWith(s, p) == Len(p) <= Len(s) /\ SubSeq(s, 1, Len(p)) = p

indexOf(s, p) ==
    LET hits == {i \in 0..(Len(s) - Len(p)) : SubSeq(s, i + 1, i + Len(p)) = p}
    IN IF hits = {} THEN -1 ELSE CHOOSE i \in hits : \A j \in hits : i <= j

includes(s, p) == indexOf(s, p) # -1

RECURSIVE split(_, _)
split(s, sep) ==
    IF indexOf(s, sep) = -1 THEN <<s>>
    ELSE <<Slice(s, 0, indexOf(s, sep))>>
             \o split(Slice(s, indexOf(s, sep) + Len(sep), Len(s)), sep)

NoFileName == <<"undefined">>

ParsedQuery(type, fileName, searchTerm, original) ==
    [type |-> type, fileName |-> fileName, searchTerm |-> searchTerm,
     original |-> original]

\* const [fileName, searchTerm = ''] = pieces
fileQuery(type, pieces, original) ==
    ParsedQuery(type, pieces[1], IF Len(pieces) >= 2 THEN pieces[2] ELSE <<>>, original)

parseTrimmed(trimmed) ==
    IF startsWith(trimmed, <<"#", "#">>)
    THEN ParsedQuery("global-heading", NoFileName, Slice(trimmed, 2, Len(trimmed)), trimmed)
    ELSE IF startsWith(trimmed, <<"#", "^">>)
    THEN ParsedQuery("current-block", NoFileName, Slice(trimmed, 2, Len(trimmed)), trimmed)
    ELSE IF startsWith(trimmed, <<"#">>) /\ ~startsWith(trimmed, <<"#", "#">>)
    THEN ParsedQuery("current-heading", NoFileName, Slice(trimmed, 1, Len(trimmed)), trimmed)
    ELSE IF startsWith(trimmed, <<"^">>)
    THEN ParsedQuery("block", NoFileName, Slice(trimmed, 1, Len(trimmed)), trimmed)
    ELSE IF includes(trimmed, <<"#", "^">>)
    THEN fileQuery("file-block", split(trimmed, <<"#", "^">>), trimmed)
    ELSE IF includes(trimmed, <<"#">>) /\ ~startsWith(trimmed, <<"#">>)
    THEN fileQuery("file-heading", split(trimmed, <<"#">>), trimmed)
    ELSE IF includes(trimmed, <<"^">>) /\ ~startsWith(trimmed, <<"^">>)
    THEN fileQuery("file-block-no-hash", split(trimmed, <<"^">>), trimmed)
    ELSE ParsedQuery("file", NoFileName, trimmed, trimmed)

parseSuggestionQuery(query) == parseTrimmed(trim(query))

(***************************************************************************)
(* Query specification: the parser applied to what is typed into the       *)
(* destination box.                                                        *)
(***************************************************************************)
QueryChars == {"a", "#", "^", " "}

\* every query of up to four characters
Queries ==
    UNION {[1..n -> QueryChars] : n \in 0..4}

QueryInit ==
    /\ doc = <<<<>>>>
    /\ cursor = Pos(0, 0)
    /\ selFrom = 0
    /\ selTo = 0
    /\ clipboard \in Queries
    /\ visibleLink = FALSE
    /\ modal = NoModal
    /\ last = NoCall

CallParseSuggestionQuery ==
    /\ last' = [op |-> "parseSuggestionQuery", str |-> clipboard,
                result |-> parseSuggestionQuery(clipboard)]
    /\ UNCHANGED <<doc, cursor, selFrom, selTo, clipboard, visibleLink, modal>>

QueryNext == CallParseSuggestionQuery

QuerySpec == QueryInit /\ [][QueryNext]_vars

(***************************************************************************)
(* Properties of the suggestion query parser.                              *)
(***************************************************************************)
QueryTypes ==
    {"global-heading", "current-block", "current-heading", "block", "file-block",
     "file-heading", "file-block-no-hash", "file"}

StartsExactly(s, p) == Len(s) >= Len(p) /\ [i \in 1..Len(p) |-> s[i]] = p

\* the type the rules give, first match first
TypeOf(t) ==
    IF StartsExactly(t, <<"#", "#">>) THEN "global-heading"
    ELSE IF StartsExactly(t, <<"#", "^">>) THEN "current-block"
    ELSE IF StartsExactly(t, <<"#">>) THEN "current-heading"
    ELSE IF StartsExactly(t, <<"^">>) THEN "block"
    ELSE IF Contains(t, <<"#", "^">>) THEN "file-block"
    ELSE IF Contains(t, <<"#">>) THEN "file-heading"
    ELSE IF Contains(t, <<"^">>) THEN "file-block-no-hash"
    ELSE "file"

MarkerOf(type) ==
    IF type \in {"global-heading", "current-block", "file-block"}
    THEN IF type = "global-heading" THEN <<"#", "#">> ELSE <<"#", "^">>
    ELSE IF type \in {"current-heading", "file-heading"} THEN <<"#">>
    ELSE IF type \in {"block", "file-block-no-hash"} THEN <<"^">>
    ELSE <<>>

\* offset of the first occurrence of the marker p in t, which holds one
FirstAt(t, p) ==
    CHOOSE i \in 0..(Len(t) - Len(p)) :
        /\ SubSeq(t, i + 1, i + Len(p)) = p
        /\ \A j \in 0..(i - 1) : SubSeq(t, j + 1, j + Len(p)) # p

QueryClassified(t, r) ==
    /\ r.type \in QueryTypes
    /\ r.type = TypeOf(t)
    /\ r.original = t

QueryPrefixParts(t, r) ==
    r.type \in {"global-heading", "current-block", "current-heading", "block", "file"} =>
        r.searchTerm = SubSeq(t, Len(MarkerOf(r.type)) + 1, Len(t))

QueryFileName(t, r) ==
    r.type \in {"file-block", "file-heading", "file-block-no-hash"} =>
        r.fileName = SubSeq(t, 1, FirstAt(t, MarkerOf(r.type)))

\* C23: parseSuggestionQuery is total and classifies the trimmed query into
\* exactly one of 8 types by the first matching rule: prefix '##' gives
\* global-heading; prefix '#^' gives current-block; prefix '#' gives
\* current-heading; prefix '^' gives block; containing '#^' gives
\* file-block; containing '#' gives file-heading; containing '^' gives
\* file-block-no-hash; otherwise file.  For the three file-* types fileName
\* is the text before the first marker and searchTerm is everything after
\* that marker; for the other types searchTerm is everything after the
\* prefix (the whole trimmed query for type file), and original is the
\* trimmed query.
C23_QueryClassification ==
    last.op = "parseSuggestionQuery" =>
        /\ QueryClassified(trim(last.str), last.result)
        /\ QueryPrefixParts(trim(last.str), last.result)
        /\ QueryFileName(trim(last.str), last.result)
        /\ last.result.type \in {"file-block", "file-heading", "file-block-no-hash"} =>
               last.result.searchTerm =
                   SubSeq(trim(last.str),
                          FirstAt(trim(last.str), MarkerOf(last.result.type))
                              + Len(MarkerOf(last.result.type)) + 1,
                          Len(trim(last.str)))

\* what holds of the code: everything but the search term of a file query
\* with a second marker
C23_AllButSecondMarker ==
    last.op = "parseSuggestionQuery" =>
        /\ QueryClassified(trim(last.str), last.result)
        /\ QueryPrefixParts(trim(last.str), last.result)
        /\ QueryFileName(trim(last.str), last.result)

(***************************************************************************)
(* Link syntax hider (linkSyntaxHider.ts).  Positions are offsets into the *)
(* document text, whose lines are joined by one line break.                *)
(***************************************************************************)
LineBreak == "\n"

RECURSIVE docText(_)
docText(lines) ==
    IF Len(lines) = 1 THEN lines[1]
    ELSE lines[1] \o <<LineBreak>> \o docText(Tail(lines))

\* doc.line(n).from for the 1-based line number n
RECURSIVE lineFrom(_, _)
lineFrom(lines, n) ==
    IF n = 1 THEN 0 ELSE lineFrom(lines, n - 1) + Len(lines[n - 1]) + 1

\* doc.lineAt(pos).number
lineAt(lines, pos) ==
    CHOOSE n \in 1..Len(lines) :
        lineFrom(lines, n) <= pos /\ pos <= lineFrom(lines, n) + Len(lines[n])

HiddenRange(from, to, side) == [from |-> from, to |-> to, side |-> side]

\* /(!?\[)([^\]]*)\]\(([^)]+)\)/ tried at offset i of the line
hiddenMdMatchAt(line, i) ==
    LET prefixLen == IF PrefixAt(line, i, <<"!", "[">>) THEN 2
                     ELSE IF PrefixAt(line, i, <<"[">>) THEN 1 ELSE 0
        rb == FirstOf(line, i + prefixLen, {"]"})
        rp == FirstOf(line, rb + 2, {")"})
    IN IF prefixLen = 0 \/ rb >= Len(line) THEN [ok |-> FALSE]
       ELSE IF ~PrefixAt(line, rb + 1, <<"(">>) \/ rp >= Len(line) \/ rp = rb + 2
       THEN [ok |-> FALSE]
       ELSE [ok |-> TRUE, textStart |-> i + prefixLen, textEnd |-> rb, end |-> rp + 1]

mdRangesOf(m, i, from) ==
    (IF i < m.textStart THEN <<HiddenRange(from + i, from + m.textStart, "leading")>>
     ELSE <<>>)
    \o (IF m.textEnd < m.end THEN <<HiddenRange(from + m.textEnd, from + m.end, "trailing")>>
        ELSE <<>>)

RECURSIVE mdRangesFrom(_, _, _)
mdRangesAfter(line, from, i, m) ==
    IF m.ok THEN mdRangesOf(m, i, from) \o mdRangesFrom(line, from, m.end)
    ELSE mdRangesFrom(line, from, i + 1)

mdRangesFrom(line, from, i) ==
    IF i >= Len(line) THEN <<>>
    ELSE mdRangesAfter(line, from, i, hiddenMdMatchAt(line, i))

findMarkdownLinkSyntaxRanges(lineText, from) == mdRangesFrom(lineText, from, 0)

\* String.prototype.indexOf(p, start), Len(s) standing for -1
indexFrom(s, p, start) ==
    LET hits == {i \in start..(Len(s) - Len(p)) : SubSeq(s, i + 1, i + Len(p)) = p}
    IN IF hits = {} THEN Len(s) ELSE CHOOSE i \in hits : \A j \in hits : i <= j

\* innerContent.lastIndexOf("|"), -1 when there is none
lastPipe(inner) ==
    LET hits == {i \in 0..(Len(inner) - 1) : At(inner, i) = "|"}
    IN IF hits = {} THEN -1 ELSE CHOOSE i \in hits : \A j \in hits : i >= j

wikiRangesOf(line, from, openIdx, closeIdx) ==
    LET hasEmbed == openIdx > 0 /\ At(line, openIdx - 1) = "!"
        pipeIdx == lastPipe(Slice(line, openIdx + 2, closeIdx))
    IN << HiddenRange(from + (IF hasEmbed THEN openIdx - 1 ELSE openIdx),
                      IF pipeIdx # -1 THEN from + openIdx + 2 + pipeIdx + 1
                      ELSE from + openIdx + 2,
                      "leading"),
          HiddenRange(from + closeIdx, from + closeIdx + 2, "trailing") >>

RECURSIVE wikiRangesFrom(_, _, _)
wikiRangesClosed(line, from, openIdx, closeIdx) ==
    IF closeIdx = Len(line) THEN <<>>
    ELSE wikiRangesOf(line, from, openIdx, closeIdx)
             \o wikiRangesFrom(line, from, closeIdx + 2)

wikiRangesOpened(line, from, openIdx) ==
    IF openIdx = Len(line) THEN <<>>
    ELSE wikiRangesClosed(line, from, openIdx,
                          indexFrom(line, <<"]", "]">>, openIdx + 2))

wikiRangesFrom(line, from, searchIdx) ==
    IF searchIdx >= Len(line) THEN <<>>
    ELSE wikiRangesOpened(line, from, indexFrom(line, <<"[", "[">>, searchIdx))

findWikiLinkSyntaxRanges(lineText, from) == wikiRangesFrom(lineText, from, 0)

\* a.from - b.from || a.to - b.to
rangeBefore(a, b) == a.from < b.from \/ (a.from = b.from /\ a.to < b.to)

\* Array.prototype.sort with that comparator (stable)
RECURSIVE sortRanges(_)
sortRanges(ranges) ==
    IF ranges = <<>> THEN <<>>
    ELSE LET first == CHOOSE i \in 1..Len(ranges) :
                          \A j \in 1..Len(ranges) :
                              /\ ~rangeBefore(ranges[j], ranges[i])
                              /\ (j < i => rangeBefore(ranges[i], ranges[j]))
         IN <<ranges[first]>>
                \o sortRanges(SubSeq(ranges, 1, first - 1)
                                  \o SubSeq(ranges, first + 1, Len(ranges)))

hiddenRangesOfLine(lineText, from) ==
    sortRanges(findMarkdownLinkSyntaxRanges(lineText, from)
                   \o findWikiLinkSyntaxRanges(lineText, from))

hiddenRangesOfLineNo(lines, lineNo) ==
    hiddenRangesOfLine(lines[lineNo], lineFrom(lines, lineNo))

\* the hidden ranges of the line the selection head is on
computeHiddenRanges(lines, head) == hiddenRangesOfLineNo(lines, lineAt(lines, head))

insideHidden(pos, h) ==
    IF h.side = "leading" THEN pos >= h.from /\ pos < h.to
    ELSE pos > h.from /\ pos <= h.to

NoCorrection == -1

Max(a, b) == IF a >= b THEN a ELSE b
Min(a, b) == IF a <= b THEN a ELSE b

correctionBy(pos, oldPos, h, docLength) ==
    IF h.side = "leading"
    THEN IF pos >= oldPos THEN h.to ELSE Max(0, h.from - 1)
    ELSE IF pos >= oldPos THEN Min(docLength, h.to + 1) ELSE h.from

correctCursorPos(pos, oldPos, hidden, docLength) ==
    LET hits == {i \in 1..Len(hidden) : insideHidden(pos, hidden[i])}
    IN IF hits = {} THEN NoCorrection
       ELSE correctionBy(pos, oldPos,
                         hidden[CHOOSE i \in hits : \A j \in hits : i <= j], docLength)

\* the passes of cursorCorrector over one selection head
RECURSIVE correctedHead(_, _, _, _, _)
correctedOnce(head, corrected, oldHead, hidden, docLen, passes) ==
    IF corrected = NoCorrection THEN head
    ELSE correctedHead(corrected, oldHead, hidden, docLen, passes - 1)

correctedHead(head, oldHead, hidden, docLen, passes) ==
    IF passes = 0 THEN head
    ELSE correctedOnce(head, correctCursorPos(head, oldHead, hidden, docLen), oldHead,
                       hidden, docLen, passes)

CorrectorPasses == 3

\* the selection head after the update listener ran on a selection change
correctedIn(hidden, lines, head, oldHead) ==
    IF hidden = <<>> THEN head
    ELSE correctedHead(head, oldHead, hidden, Len(docText(lines)), CorrectorPasses)

cursorCorrector(lines, head, oldHead) ==
    correctedIn(computeHiddenRanges(lines, head), lines, head, oldHead)

\* the editor position of an offset
posOf(lines, offset) ==
    Pos(lineAt(lines, offset) - 1, offset - lineFrom(lines, lineAt(lines, offset)))

\* the offset of the selection head
headOf(lines, pos) == lineFrom(lines, pos.line + 1) + pos.ch

(***************************************************************************)
(* Hider specification: selection changes and edits in an editor that has  *)
(* the link syntax hider installed.                                        *)
(***************************************************************************)
HiderDocs ==
    { <<WikiA>>,
      <<<<"a">> \o WikiAB \o <<"a">>>>,
      <<WikiA \o WikiA>>,
      <<MdAB>>,
      <<EmbedA \o <<"a">>>>,
      <<<<"a">>, WikiA>>,
      <<WikiA, MdAB>>,
      <<<<"a", " ", "b">>>> }

HiderInit ==
    /\ doc \in HiderDocs
    /\ cursor = Pos(0, 0)
    /\ selFrom = 0
    /\ selTo = 0
    /\ clipboard = <<>>
    /\ visibleLink = FALSE
    /\ modal = NoModal
    /\ last = NoCall

\* a transaction that sets the selection: the update listener runs on it
selectionChange(target, oldHead) ==
    /\ cursor' = posOf(doc, cursorCorrector(doc, target, oldHead))
    /\ selFrom' = cursor'.ch
    /\ selTo' = cursor'.ch
    /\ last' = [op |-> "selection", target |-> target, oldHead |-> oldHead]
    /\ UNCHANGED <<doc, clipboard, visibleLink, modal>>

MoveCursor ==
    \E target \in 0..Len(docText(doc)) : selectionChange(target, headOf(doc, cursor))

\* a filter that also blocks changes that only touch a hidden range
overlapsTouching(fromA, toA, hidden) ==
    \E i \in 1..Len(hidden) : fromA <= hidden[i].to /\ toA >= hidden[i].from

\* iterChangedRanges over the one changed range of the transaction
overlaps(fromA, toA, hidden) ==
    \E i \in 1..Len(hidden) : fromA < hidden[i].to /\ toA > hidden[i].from

\* protectSyntaxFilter: TRUE when the transaction is replaced by []
protectSyntaxFilter(tr, hidden) ==
    IF ~tr.docChanged THEN FALSE
    ELSE IF tr.userEvent \notin {"input", "delete"} THEN FALSE
    ELSE IF hidden = <<>> THEN FALSE
    ELSE overlaps(tr.fromA, tr.toA, hidden)

\* the text after the change
changedText(text, tr) ==
    Slice(text, 0, tr.fromA) \o tr.insert \o Slice(text, tr.toA, Len(text))

\* a position mapped through the change
mapPos(pos, tr) ==
    IF pos <= tr.fromA THEN pos
    ELSE IF pos >= tr.toA THEN pos - (tr.toA - tr.fromA) + Len(tr.insert)
    ELSE tr.fromA + Len(tr.insert)

\* the transaction takes effect; one from the user carries the selection
\* after the change, which the update listener then handles
applyTransaction(tr, lines, oldHead) ==
    /\ doc' = lines
    /\ cursor' = posOf(lines,
                       IF tr.userEvent = "none" THEN mapPos(oldHead, tr)
                       ELSE cursorCorrector(lines, tr.fromA + Len(tr.insert), oldHead))
    /\ selFrom' = cursor'.ch
    /\ selTo' = cursor'.ch

dispatch(tr, hidden, oldHead) ==
    /\ IF protectSyntaxFilter(tr, hidden)
       THEN UNCHANGED <<doc, cursor, selFrom, selTo>>
       ELSE applyTransaction(tr, split(changedText(docText(doc), tr), <<LineBreak>>),
                             oldHead)
    /\ last' = [op |-> "edit", tr |-> tr, hidden |-> hidden, docBefore |-> doc,
                cursorBefore |-> cursor]
    /\ UNCHANGED <<clipboard, visibleLink, modal>>

MaxChange == 1

\* a change of the document text: typed ("input"), deleted ("delete") or
\* made by a command ("none")
ChangeDocument ==
    /\ doc \in HiderDocs
    /\ \E fromA \in 0..Len(docText(doc)), toA \in 0..Len(docText(doc)),
          insert \in {<<>>, <<"x">>}, userEvent \in {"input", "delete", "none"} :
          /\ fromA <= toA
          /\ toA - fromA <= MaxChange
          /\ dispatch([docChanged |-> fromA < toA \/ insert # <<>>,
                       userEvent |-> userEvent, fromA |-> fromA, toA |-> toA,
                       insert |-> insert],
                      computeHiddenRanges(doc, headOf(doc, cursor)),
                      headOf(doc, cursor))

HiderNext == MoveCursor \/ ChangeDocument

HiderSpec == HiderInit /\ [][HiderNext]_vars

C30_TypedValuesKept ==
    last.op = "populateFromClipboard" =>
        /\ "text" \in modal.operated => modal.textInput = last.textInput
        /\ "destination" \in modal.operated => modal.destInput = last.destInput

(***************************************************************************)
(* Properties of the two entry points of the edit-link logic.              *)
(***************************************************************************)
OperationFields ==
    {"link", "start", "end", "enteredFromLeft", "isNewLink", "shouldSelectText",
     "conversionNotice"}

\* the EditorContext part of an EditorContextWithSelection
plainContext(context) ==
    [cursorLine |-> context.cursorLine, cursorCh |-> context.cursorCh,
     lineText |-> context.lineText, selection |-> context.selection,
     clipboardText |-> context.clipboardText]

sameOperation(a, b) ==
    /\ DOMAIN a = OperationFields
    /\ DOMAIN b = OperationFields
    /\ \A f \in OperationFields : a[f] = b[f]

\* C28: for every editor context with an empty selection and hasSelection =
\* false, determineLinkOperationWithSelection returns an operation equal
\* field by field (link, start, end, enteredFromLeft, isNewLink,
\* shouldSelectText, conversionNotice) to the one determineLinkOperation
\* returns for the same cursor, line and clipboard; both functions always
\* return an operation (never null), and every new-link operation they
\* return has isEmbed = false and enteredFromLeft = true.
C28_SameWithoutSelection ==
    /\ (/\ last.op = "determineLinkOperationWithSelection"
        /\ last.context.selection = <<>>
        /\ ~last.context.hasSelection) =>
           sameOperation(last.result, determineLinkOperation(plainContext(last.context)))
    /\ last.op \in {"determineLinkOperation", "determineLinkOperationWithSelection"} =>
           /\ DOMAIN last.result = OperationFields
           /\ last.result.isNewLink =>
                  ~last.result.link.isEmbed /\ last.result.enteredFromLeft

\* no selection and the cursor on a bare URL: both entry points replace the
\* URL's span
C28_Witness ==
    /\ last.op = "determineLinkOperationWithSelection"
    /\ last.context.selection = <<>>
    /\ ~last.context.hasSelection
    /\ last.result.isNewLink
    /\ last.result.start < last.result.end
    /\ last.result = determineLinkOperation(plainContext(last.context))

(***************************************************************************)
(* Properties of the skip position as an editor position.                  *)
(***************************************************************************)
\* C26: whenever determineSkipPosition returns skipped = true for a context
\* with 0 <= cursorLine < lineCount, the returned position is outside the
\* detected link: on another line, or on the cursor line at a ch outside the
\* inclusive span [start, end]; the only exception is a whole-line link in a
\* one-line document, where the cursor stays on the line at ch = end (left
\* side) or ch = 0 (right side).  A link that is not the whole line is
\* therefore always left, so the last fallback return of each normal-case
\* branch (ch = end, ch = 0 with start = 0) is never taken.
C26_SkipLeavesLink ==
    (SkipCalled /\ last.result.skipped) =>
        LET c == last.context
            p == last.result.position
        IN \/ p.line # c.cursorLine
           \/ p.ch < SkipLink.start
           \/ p.ch > SkipLink.end
           \/ /\ SkipWholeLine
              /\ c.lineCount = 1
              /\ p = Pos(c.cursorLine, IF SkipLeftSide THEN SkipLink.end ELSE 0)

\* a link that ends its line, on the last of several lines, entered on the
\* left side with text before it: the skip turns around and lands before
\* the link
C26_Witness ==
    /\ SkipCalled /\ last.result.skipped
    /\ ~SkipWholeLine /\ SkipLeftSide
    /\ SkipLink.end = Len(last.context.lineText)
    /\ last.context.cursorLine > 0
    /\ last.context.cursorLine + 1 = last.context.lineCount
    /\ last.result.position = Pos(last.context.cursorLine, SkipLink.start - 1)

\* the exception: a whole-line link in a one-line document
C26_WitnessOneLine ==
    /\ SkipCalled /\ last.result.skipped
    /\ SkipWholeLine /\ last.context.lineCount = 1 /\ ~SkipLeftSide
    /\ last.result.position = Pos(0, 0)

\* C27: for every context with 0 <= cursorLine < lineCount,
\* 0 <= cursorCh <= lineText.length and prevLineLength >= 0 the returned
\* position is a valid editor position: 0 <= line < lineCount and
\* |line - cursorLine| <= 1; ch = 0 on line cursorLine + 1; ch =
\* prevLineLength on line cursorLine - 1; 0 <= ch <= lineText.length on the
\* cursor line.  The same context always yields the same result.
C27_ValidPosition ==
    SkipCalled =>
        LET c == last.context
            p == last.result.position
        IN /\ 0 <= c.cursorLine /\ c.cursorLine < c.lineCount
           /\ 0 <= c.cursorCh /\ c.cursorCh <= Len(c.lineText)
           /\ c.prevLineLength >= 0
           /\ 0 <= p.line /\ p.line < c.lineCount
           /\ p.line \in {c.cursorLine - 1, c.cursorLine, c.cursorLine + 1}
           /\ p.line = c.cursorLine + 1 => p.ch = 0
           /\ p.line = c.cursorLine - 1 => p.ch = c.prevLineLength
           /\ p.line = c.cursorLine => 0 <= p.ch /\ p.ch <= Len(c.lineText)
           /\ last.result = determineSkipPosition(c)

\* a link that ends the only line, entered on the left side: one past the
\* link's end would lie beyond the line, and the skip lands before the link
C27_Witness ==
    /\ SkipCalled /\ last.result.skipped
    /\ ~SkipWholeLine /\ SkipLeftSide
    /\ SkipLink.end = Len(last.context.lineText)
    /\ last.context.lineCount = 1
    /\ last.result.position = Pos(0, SkipLink.start - 1)

(***************************************************************************)
(* Properties of the cursor corrector.                                     *)
(***************************************************************************)
HeadInHiddenRange(lines, head, hidden) ==
    \E i \in 1..Len(hidden) : insideHidden(head, hidden[i])

\* C24: after the cursorCorrector update listener has handled a selection
\* change, no selection head lies inside a hidden link-syntax range of its
\* line (leading range: from <= pos < to; trailing range: from < pos <= to):
\* a cursor that lands inside a hidden region is moved out of it in the
\* direction of travel within that single update, for every document,
\* including links at the very start or end of the document and adjacent
\* links.
C24_HeadOutsideHidden ==
    (\/ last.op = "selection"
     \/ last.op = "edit" /\ last.tr.userEvent # "none" /\ doc # last.docBefore) =>
        ~HeadInHiddenRange(doc, headOf(doc, cursor),
                           computeHiddenRanges(doc, headOf(doc, cursor)))

(***************************************************************************)
(* Properties of the edit protection.                                      *)
(***************************************************************************)
\* C25: protectSyntaxFilter drops entirely (returns no transaction, so
\* document and selection stay unchanged) every document-changing
\* transaction with user event 'input' or 'delete' whose changed range
\* [fromA, toA] overlaps a hidden range h of the start state (fromA < h.to
\* and toA > h.from), and passes every other transaction through
\* unmodified; in particular programmatic changes that carry no such user
\* event (the Edit Link replacement) are never blocked even when they
\* overwrite hidden syntax.
C25_ProtectedEdits ==
    last.op = "edit" =>
        IF /\ last.tr.docChanged
           /\ last.tr.userEvent \in {"input", "delete"}
           /\ \E i \in 1..Len(last.hidden) :
                  last.tr.fromA < last.hidden[i].to /\ last.tr.toA > last.hidden[i].from
        THEN doc = last.docBefore /\ cursor = last.cursorBefore
        ELSE docText(doc) = changedText(docText(last.docBefore), last.tr)

\* a deletion inside hidden syntax was dropped
C25_Witness ==
    /\ last.op = "edit"
    /\ last.tr.userEvent = "delete"
    /\ last.tr.fromA < last.tr.toA
    /\ \E i \in 1..Len(last.hidden) :
           last.tr.fromA < last.hidden[i].to /\ last.tr.toA > last.hidden[i].from
    /\ doc = last.docBefore

\* a change made by a command overwrote hidden syntax
C25_WitnessProgrammatic ==
    /\ last.op = "edit"
    /\ last.tr.userEvent = "none"
    /\ \E i \in 1..Len(last.hidden) :
           last.tr.fromA < last.hidden[i].to /\ last.tr.toA > last.hidden[i].from
    /\ doc # last.docBefore

====
